---------------------------- MODULE Spec2Model ----------------------------
(***************************************************************************)
(* Verification model of the column standardizer tools of the repository:  *)
(*   src/standerlized.py   standardize_columns, combine_duplicate_columns, *)
(*                         add_manufacturer_column, process_any_file       *)
(*   src/standerlized2.py  MOSFETColumnMapper.find_best_match, map_columns,*)
(*                         process_excel_file, run_interactive             *)
(*                                                                         *)
(* A table (pandas DataFrame) is a record                                  *)
(*   [index |-> row labels, names |-> column labels, cols |-> columns]     *)
(* with cols[k] the cells of the k-th column, one per row of index.        *)
(* Column labels may repeat.  A cell is a text (Python str) or NULL (NaN). *)
(* The fuzzy scores of the fuzzywuzzy library are inputs of the model:     *)
(* every score the library could return is drawn from ScoreVals.           *)
(***************************************************************************)
EXTENDS Integers, Sequences, FiniteSets, TLC

VARIABLES
    pc,               \* position of the run: which call has been made
    file,             \* the table as loaded from the input file
    df,               \* the table the run currently holds / has produced
    mfr,              \* manufacturer_name as given by the caller
    add_manufacturer, \* the add_manufacturer argument of process_any_file
    wratio,           \* process.extractOne scores: header -> score per schema entry
    out,              \* the tables written to disk so far
    result,           \* the value returned to the caller
    threshold,        \* the threshold argument of find_best_match / map_columns
    fz,               \* fuzz.ratio / fuzz.partial_ratio scores: header -> target -> score
    match,            \* the value returned by find_best_match
    column_mapping,   \* map_columns: header -> standard name (a dict)
    unmapped_columns, \* map_columns: the headers without a match (a list)
    mapping_scores,   \* map_columns: header -> score (a dict)
    final_mapping,    \* run_interactive: the mapping returned by the preview dialog
    folder,           \* select_folder_for_batch: os.listdir(folder_path) with file contents
    pos,              \* select_folder_for_batch: position of the loop in the listing
    processed,        \* select_folder_for_batch: processed
    errors,           \* select_folder_for_batch: errors
    calls,            \* the file names handed to process_any_file so far
    mapping_arg,      \* the mapping_dict argument of standardize_columns
    gui,              \* TableScraperGUI: buttons, self.scraper, pending root.after callbacks
    scr,              \* the EnhancedTableScraper objects created so far, by number
    threads,          \* the scraper threads started so far (run_scraper), by number
    cmb               \* ExcelCombiner.combine_files: arguments, locals, returned value

\* the variables of process_any_file (standerlized.py)
stdVars == <<pc, file, df, mfr, add_manufacturer, wratio, out, result>>

\* the variables of MOSFETColumnMapper (standerlized2.py)
mapVars == <<threshold, fz, match, column_mapping, unmapped_columns, mapping_scores,
             final_mapping>>

\* the variables of select_folder_for_batch (standerlized.py)
batchVars == <<folder, pos, processed, errors, calls>>

\* the variables of standardize_columns called directly (standerlized.py), of
\* the table scraper (GUIscrapper.py) and of the file combiner (merge.py)
extVars == <<mapping_arg, gui, scr, threads, cmb>>

vars == <<stdVars, mapVars, batchVars, extVars>>

----------------------------------------------------------------------------
(* Generic helpers *)

Range(s) == {s[i] : i \in 1..Len(s)}

\* F applied to the value of v, with v evaluated once
Bind(v, F(_)) == CHOOSE r \in {F(x) : x \in {v}} : TRUE

IsDistinct(s) == \A i, j \in 1..Len(s) : s[i] = s[j] => i = j

\* ascending sequence of the elements of a finite set of integers
RECURSIVE SortedSeq(_)
SortedSeq(S) ==
    IF S = {} THEN <<>>
    ELSE LET m == CHOOSE x \in S : \A y \in S : x <= y
         IN <<m>> \o SortedSeq(S \ {m})

----------------------------------------------------------------------------
(* Cells and tables *)

\* NaN / None cell of a DataFrame (pd.isna is true of it)
NULL == "NaN"

\* str(v) of a cell that holds text: astype(str) of a Python str is that str
Str(v) == v

NRows(t) == Len(t.index)
NCols(t) == Len(t.names)

\* df.iloc[:, k] (k counted from 1 here)
Iloc(t, k) == t.cols[k]

\* df[col] for a label that occurs exactly once
Col(t, c) == t.cols[CHOOSE k \in 1..NCols(t) : t.names[k] = c]

\* df.columns.get_loc(c), 0-based, for a label that occurs exactly once
GetLoc(t, c) == (CHOOSE k \in 1..NCols(t) : t.names[k] = c) - 1

\* a column holding the scalar v in every row
Broadcast(t, v) == [r \in 1..NRows(t) |-> v]

\* df.insert(loc, c, v): new column at 0-based position loc
Insert(t, loc, c, v) ==
    [index |-> t.index,
     names |-> SubSeq(t.names, 1, loc) \o <<c>> \o SubSeq(t.names, loc + 1, NCols(t)),
     cols  |-> SubSeq(t.cols, 1, loc) \o <<Broadcast(t, v)>>
               \o SubSeq(t.cols, loc + 1, NCols(t))]

\* df[c] = series, for a label c that occurs exactly once
SetCol(t, c, s) ==
    [t EXCEPT !.cols = [k \in 1..NCols(t) |-> IF t.names[k] = c THEN s ELSE t.cols[k]]]

\* fillna that fills nothing
FillnaNothing(s, other) == s

\* fillna that takes the fill values from the wrong rows (bottom up)
FillnaMisaligned(s, other) ==
    [r \in 1..Len(s) |-> IF s[r] = NULL THEN other[Len(s) + 1 - r] ELSE s[r]]

\* Series.fillna(other)
Fillna(s, other) == [r \in 1..Len(s) |-> IF s[r] = NULL THEN other[r] ELSE s[r]]

\* Series.nunique(): number of distinct non-null values
Nunique(s) == Cardinality({s[r] : r \in 1..Len(s)} \ {NULL})


----------------------------------------------------------------------------
(* src/standerlized.py: combine_duplicate_columns *)

\* every label kept, repeated ones too
UniqueColsKeepAll(names) == names

\* the labels in order of their last occurrence
UniqueColsByLast(names) ==
    LET n == Len(names)
        F[i \in 0..n] ==
            IF i = 0 THEN <<>>
            ELSE IF names[n + 1 - i] \in Range(F[i - 1]) THEN F[i - 1]
                 ELSE <<names[n + 1 - i]>> \o F[i - 1]
    IN F[n]

\* unique_cols: the labels in order of first occurrence (lines 392-397)
UniqueCols(names) ==
    LET F[i \in 0..Len(names)] ==
            IF i = 0 THEN <<>>
            ELSE Bind(F[i - 1], LAMBDA unique_cols :
                     IF names[i] \in Range(unique_cols) THEN unique_cols
                     ELSE Append(unique_cols, names[i]))
    IN F[Len(names)]

\* same_name_cols: the positions that carry label col, ascending (line 399)
SameNameCols(names, col) == SortedSeq({i \in 1..Len(names) : names[i] = col})

\* duplicate_groups: label -> positions, for labels occurring more than once
DuplicateGroups(names) ==
    [col \in {c \in Range(names) : Len(SameNameCols(names, c)) > 1}
        |-> SameNameCols(names, col)]

\* the loop body with the two sides of the concatenation exchanged
MergeStepSwapped(combined, dup) ==
    LET filled == Fillna(combined, dup)
    IN [r \in 1..Len(filled) |->
           IF filled[r] # NULL /\ dup[r] # NULL /\ filled[r] # dup[r]
           THEN Str(dup[r]) \o " | " \o Str(filled[r]) ELSE filled[r]]

\* one pass of the loop body of lines 417-425: fold column dup into combined
MergeStep(combined, dup) ==
    LET filled == Fillna(combined, dup)
        mask   == [r \in 1..Len(filled) |->
                      filled[r] # NULL /\ dup[r] # NULL /\ filled[r] # dup[r]]
    IN [r \in 1..Len(filled) |->
           IF mask[r] THEN Str(filled[r]) \o " | " \o Str(dup[r]) ELSE filled[r]]

\* the fold stopped after the second member of the group
CombinedSeriesOfTwo(t, col_indices) ==
    MergeStep(Iloc(t, col_indices[1]), Iloc(t, col_indices[2]))

\* combined_series of a group: seed with the first member, fold the others
\* in left-to-right order (lines 413-425)
CombinedSeries(t, col_indices) ==
    LET F[n \in 1..Len(col_indices)] ==
            IF n = 1 THEN Iloc(t, col_indices[1])
            ELSE Bind(F[n - 1], LAMBDA combined_series :
                     MergeStep(combined_series, Iloc(t, col_indices[n])))
    IN F[Len(col_indices)]

combine_duplicate_columns(t) ==
    LET unique_cols      == UniqueCols(t.names)
        duplicate_groups == DuplicateGroups(t.names)
    IN IF DOMAIN duplicate_groups = {} THEN t
       ELSE [index |-> t.index,
             names |-> unique_cols,
             cols  |-> [k \in 1..Len(unique_cols) |->
                          IF unique_cols[k] \in DOMAIN duplicate_groups
                          THEN CombinedSeries(t, duplicate_groups[unique_cols[k]])
                          ELSE Col(t, unique_cols[k])]]

----------------------------------------------------------------------------
(* src/standerlized.py: add_manufacturer_column *)

\* the insertion placed at the position of "Part Number" itself
InsertManufacturerBefore(d, manufacturer_name) ==
    IF "Part Number" \in Range(d.names)
    THEN Insert(d, GetLoc(d, "Part Number"), "Manufacturer", manufacturer_name)
    ELSE Insert(d, 0, "Manufacturer", manufacturer_name)

\* the branch taken when no "Manufacturer" column exists (lines 440-446)
InsertManufacturer(d, manufacturer_name) ==
    IF "Part Number" \in Range(d.names)
    THEN Insert(d, GetLoc(d, "Part Number") + 1, "Manufacturer", manufacturer_name)
    ELSE Insert(d, 0, "Manufacturer", manufacturer_name)

\* the branch taken when a "Manufacturer" column exists (lines 447-452)
FillManufacturer(d, manufacturer_name) ==
    LET filled == Fillna(Col(d, "Manufacturer"), Broadcast(d, manufacturer_name))
    IN IF Nunique(filled) <= 1
       THEN SetCol(d, "Manufacturer", Broadcast(d, manufacturer_name))
       ELSE SetCol(d, "Manufacturer", filled)

\* lines 440-453, applied to the table d that line 438 has produced
AnnotateMerged(d, manufacturer_name) ==
    IF "Manufacturer" \notin Range(d.names)
    THEN InsertManufacturer(d, manufacturer_name)
    ELSE FillManufacturer(d, manufacturer_name)

add_manufacturer_column(t, manufacturer_name) ==
    AnnotateMerged(combine_duplicate_columns(t), manufacturer_name)

----------------------------------------------------------------------------
(* src/standerlized.py: standardize_columns *)

\* the std_name keys of STANDARD_PARAMS in dictionary order (a slice: lines
\* 9, 14, 25)
STANDARD_PARAMS == <<"Part Number", "Manufacturer", "Type">>

\* the entries for which the scores of the headers H1, H2 are drawn; their
\* score for every other entry is 0
DrawnEntries == 1..2

\* the scores w (header -> drawn entry -> score) with 0 for the other entries
WithZeroEntries(w) ==
    [h \in DOMAIN w |->
        [e \in 1..Len(STANDARD_PARAMS) |-> IF e \in DrawnEntries THEN w[h][e] ELSE 0]]

\* default threshold of standardize_columns (line 373)
StdThreshold == 85

\* process.extractOne(str(col), [std_name] + alternatives)[1] for the e-th
\* entry: the best score over the entry's choices, as the library reports it
ExtractOneScore(col, e) == wratio[col][e]

\* the inner loop of lines 377-385: the first entry of the dictionary whose
\* score reaches the threshold names the column; with none the label stays
StdName(col, mapping_dict, thr) ==
    LET hits == {e \in 1..Len(mapping_dict) : ExtractOneScore(col, e) >= thr}
    IN IF hits = {} THEN col
       ELSE mapping_dict[CHOOSE e \in hits : \A e2 \in hits : e <= e2]

\* df.rename(columns=new_cols) with new_cols[col] for every col of df.columns
standardize_columns(t, mapping_dict, thr) ==
    [t EXCEPT !.names = [k \in 1..NCols(t) |-> StdName(t.names[k], mapping_dict, thr)]]

----------------------------------------------------------------------------
(* src/standerlized2.py: MOSFETColumnMapper *)

\* Python None
None == "None"

\* a header label that is NaN (pd.isna is true of it)
NaNHeader == "NaN"

\* the characters of the texts of the model: headers, standard names, patterns
Chars(h) ==
    CASE h = "" -> <<>>
      [] h = "Vds Max (V)" -> <<"V", "d", "s", " ", "M", "a", "x", " ", "(", "V", ")">>
      [] h = " COL -  " -> <<" ", "C", "O", "L", " ", "-", " ", " ">>
      [] h = "H1" -> <<"H", "1">>
      [] h = "H2" -> <<"H", "2">>
      [] h = "   " -> <<" ", " ", " ">>
      [] h = "column" -> <<"c", "o", "l", "u", "m", "n">>
      [] h = "Field:" -> <<"F", "i", "e", "l", "d", ":">>
      [] h = "vendor" -> <<"v", "e", "n", "d", "o", "r">>
      [] h = "rds_on" -> <<"r", "d", "s", "_", "o", "n">>
      [] h = "Type" -> <<"T", "y", "p", "e">>
      [] h = "Part Number" -> <<"P", "a", "r", "t", " ", "N", "u", "m", "b", "e", "r">>
      [] h = "Manufacturer_real" -> <<"M", "a", "n", "u", "f", "a", "c", "t", "u", "r", "e", "r", "_", "r", "e", "a", "l">>
      [] h = "Enable Pin" -> <<"E", "n", "a", "b", "l", "e", " ", "P", "i", "n">>
      [] h = "VDS [max] (V)" -> <<"V", "D", "S", " ", "[", "m", "a", "x", "]", " ", "(", "V", ")">>
      [] h = "RDSon [max] @ VGS = 10 V (mOhm)" -> <<"R", "D", "S", "o", "n", " ", "[", "m", "a", "x", "]", " ", "@", " ", "V", "G", "S", " ", "=", " ", "1", "0", " ", "V", " ", "(", "m", "O", "h", "m", ")">>
      [] h = "pn" -> <<"p", "n">>
      [] h = "type" -> <<"t", "y", "p", "e">>
      [] h = "manufacturer_real" -> <<"m", "a", "n", "u", "f", "a", "c", "t", "u", "r", "e", "r", "_", "r", "e", "a", "l">>
      [] h = "en" -> <<"e", "n">>
      [] h = "vds" -> <<"v", "d", "s">>
      [] OTHER -> <<"n", "a", "n">>

Whitespace == {" ", "\t"}

UpperCase == <<"A", "B", "C", "D", "E", "F", "G", "H", "I", "J", "K", "L", "M",
               "N", "O", "P", "Q", "R", "S", "T", "U", "V", "W", "X", "Y", "Z">>
LowerCase == <<"a", "b", "c", "d", "e", "f", "g", "h", "i", "j", "k", "l", "m",
               "n", "o", "p", "q", "r", "s", "t", "u", "v", "w", "x", "y", "z">>

\* str.lower()
LowerSeq(s) ==
    [i \in 1..Len(s) |->
        IF \E j \in 1..Len(UpperCase) : UpperCase[j] = s[i]
        THEN LowerCase[CHOOSE j \in 1..Len(UpperCase) : UpperCase[j] = s[i]]
        ELSE s[i]]

RECURSIVE LStrip(_)
LStrip(s) == IF s # <<>> /\ Head(s) \in Whitespace THEN LStrip(Tail(s)) ELSE s

RECURSIVE RStrip(_)
RStrip(s) ==
    IF s # <<>> /\ s[Len(s)] \in Whitespace THEN RStrip(SubSeq(s, 1, Len(s) - 1)) ELSE s

\* str.strip()
StripSeq(s) == RStrip(LStrip(s))

\* re.sub(r'\s+', ' ', s) (line 508)
CollapseWhitespace(s) ==
    LET F[i \in 0..Len(s)] ==
            IF i = 0 THEN <<>>
            ELSE IF s[i] \in Whitespace
                 THEN IF i > 1 /\ s[i - 1] \in Whitespace THEN F[i - 1]
                      ELSE Append(F[i - 1], " ")
                 ELSE Append(F[i - 1], s[i])
    IN F[Len(s)]

StartsWith(s, p) == Len(s) >= Len(p) /\ SubSeq(s, 1, Len(p)) = p

\* the same substitution without the optional separator [:\-_]
StripLabelKeepsSeparator(s) ==
    LET labels == << <<"c", "o", "l", "u", "m", "n">>, <<"c", "o", "l">>,
                     <<"f", "i", "e", "l", "d">> >>
        hits   == {i \in 1..Len(labels) : StartsWith(s, labels[i])}
    IN IF hits = {} THEN s
       ELSE LET label == labels[CHOOSE i \in hits : \A j \in hits : i <= j]
            IN LStrip(SubSeq(s, Len(label) + 1, Len(s)))

\* re.sub(r'^(column|col|field)\s*[:\-_]?\s*', '', s) (line 511)
StripLabel(s) ==
    LET labels == << <<"c", "o", "l", "u", "m", "n">>, <<"c", "o", "l">>,
                     <<"f", "i", "e", "l", "d">> >>
        hits   == {i \in 1..Len(labels) : StartsWith(s, labels[i])}
    IN IF hits = {} THEN s
       ELSE LET label == labels[CHOOSE i \in hits : \A j \in hits : i <= j]
                rest  == LStrip(SubSeq(s, Len(label) + 1, Len(s)))
                rest2 == IF rest # <<>> /\ Head(rest) \in {":", "-", "_"}
                         THEN Tail(rest) ELSE rest
            IN LStrip(rest2)

\* clean_column_name (lines 499-513): the characters of the cleaned header
clean_column_name(col_name) ==
    IF col_name = NaNHeader THEN <<>>
    ELSE StripLabel(CollapseWhitespace(StripSeq(LowerSeq(Chars(col_name)))))

\* self.standard_columns as written: the (key, patterns) items of the dict
\* display in source order (a slice: lines 15, 19, 22, 55, 94, 107, 111, with
\* one or two patterns each; "mOhm" stands for the source's "m" + Omega)
StandardColumnsItems ==
    << [key |-> "Part Number",       patterns |-> <<"pn", "type">>],
       [key |-> "Manufacturer_real", patterns |-> <<"vendor">>],
       [key |-> "Manufacturer_real", patterns |-> <<"manufacturer_real">>],
       [key |-> "Type",              patterns |-> <<"type">>],
       [key |-> "Enable Pin",        patterns |-> <<"en">>],
       [key |-> "VDS [max] (V)",     patterns |-> <<"vds">>],
       [key |-> "RDSon [max] @ VGS = 10 V (mOhm)", patterns |-> <<"rds_on">>] >>

\* the dict a display builds: a key stands where it first occurs and holds
\* the value given last
standard_columns ==
    LET items == StandardColumnsItems
        keys  == UniqueCols([i \in 1..Len(items) |-> items[i].key])
        last(k) == CHOOSE i \in 1..Len(items) :
                      /\ items[i].key = k
                      /\ \A j \in 1..Len(items) : items[j].key = k => j <= i
    IN [n \in 1..Len(keys) |-> [name |-> keys[n], patterns |-> items[last(keys[n])].patterns]]

\* standard_col.lower() / pattern.lower() of the schema texts
LowerText(x) ==
    CASE x = "Part Number"       -> "part number"
      [] x = "Manufacturer_real" -> "manufacturer_real"
      [] x = "Type"              -> "type"
      [] x = "Enable Pin"        -> "enable pin"
      [] x = "VDS [max] (V)"     -> "vds [max] (v)"
      [] x = "RDSon [max] @ VGS = 10 V (mOhm)" -> "rdson [max] @ vgs = 10 v (mohm)"
      [] OTHER                   -> x

\* fuzz.ratio(clean_col, target) and fuzz.partial_ratio(clean_col, target),
\* clean_col being the cleaned text of header col_name
Ratio(col_name, target) == fz[col_name].ratio[target]
PartialRatio(col_name, target) == fz[col_name].partial[target]

\* the texts a header is compared with by fuzz.ratio, and by fuzz.partial_ratio
RatioTargets ==
    {LowerText(standard_columns[e].name) : e \in 1..Len(standard_columns)}
    \cup UNION {Range(standard_columns[e].patterns) : e \in 1..Len(standard_columns)}
PartialTargets ==
    UNION {Range(standard_columns[e].patterns) : e \in 1..Len(standard_columns)}

\* the schema texts for which the scores of the headers H1, H2 and of the
\* headers of MatchHeaders are drawn; their scores for every other schema
\* text are 0
DrawnRatioTargets == {"part number", "pn", "manufacturer_real"}
DrawnPartialTargets == {"pn", "manufacturer_real"}

\* the score function f with 0 for the texts of dom it does not cover
WithZeros(f, dom) == [y \in dom |-> IF y \in DOMAIN f THEN f[y] ELSE 0]

\* the scores computed for one entry, in the order of lines 527-544
EntryProbes(col_name, e) ==
    LET pats == standard_columns[e].patterns
        F[i \in 0..Len(pats)] ==
            IF i = 0
            THEN << [entry |-> e, partial |-> FALSE,
                     score |-> Ratio(col_name, LowerText(standard_columns[e].name))] >>
            ELSE F[i - 1] \o
                 << [entry |-> e, partial |-> FALSE,
                     score |-> Ratio(col_name, LowerText(pats[i]))],
                    [entry |-> e, partial |-> TRUE,
                     score |-> PartialRatio(col_name, LowerText(pats[i]))] >>
    IN F[Len(pats)]

\* all scores computed by the loop of line 525, in order
Probes(col_name) ==
    LET G[e \in 0..Len(standard_columns)] ==
            IF e = 0 THEN <<>> ELSE G[e - 1] \o EntryProbes(col_name, e)
    IN G[Len(standard_columns)]

\* the same update taken also by a score equal to the best so far
BetterOnTie(best, probe, thr) ==
    IF probe.partial
    THEN IF probe.score >= best.score /\ probe.score >= thr + 10
         THEN [match |-> standard_columns[probe.entry].name, score |-> probe.score]
         ELSE best
    ELSE IF probe.score >= best.score
         THEN [match |-> standard_columns[probe.entry].name, score |-> probe.score]
         ELSE best

\* one update of (best_match, best_score): lines 528-530, 536-538, 542-544
Better(best, probe, thr) ==
    IF probe.partial
    THEN IF probe.score > best.score /\ probe.score >= thr + 10
         THEN [match |-> standard_columns[probe.entry].name, score |-> probe.score]
         ELSE best
    ELSE IF probe.score > best.score
         THEN [match |-> standard_columns[probe.entry].name, score |-> probe.score]
         ELSE best

\* (best_match, best_score) when the loop has ended
BestOf(col_name, thr) ==
    Bind(Probes(col_name), LAMBDA ps :
        LET B[i \in 0..Len(ps)] ==
                IF i = 0 THEN [match |-> None, score |-> 0]
                ELSE Bind(B[i - 1], LAMBDA best : Better(best, ps[i], thr))
        IN B[Len(ps)])

\* find_best_match (lines 515-546)
find_best_match(col_name, thr) ==
    IF clean_column_name(col_name) = <<>> THEN [match |-> None, score |-> 0]
    ELSE Bind(BestOf(col_name, thr), LAMBDA best :
             [match |-> IF best.score >= thr THEN best.match ELSE None,
              score |-> best.score])

\* one pass of the loop of lines 554-560 over column col
MapOne(acc, col, thr) ==
    Bind(find_best_match(col, thr), LAMBDA m :
        IF m.match # None
        THEN [column_mapping   |-> [h \in DOMAIN acc.column_mapping \cup {col} |->
                                       IF h = col THEN m.match ELSE acc.column_mapping[h]],
              unmapped_columns |-> acc.unmapped_columns,
              mapping_scores   |-> [h \in DOMAIN acc.mapping_scores \cup {col} |->
                                       IF h = col THEN m.score ELSE acc.mapping_scores[h]]]
        ELSE [acc EXCEPT !.unmapped_columns = Append(@, col)])

\* map_columns (lines 548-562)
map_columns(t, thr) ==
    LET F[k \in 0..NCols(t)] ==
            IF k = 0
            THEN [column_mapping |-> <<>>, unmapped_columns |-> <<>>, mapping_scores |-> <<>>]
            ELSE Bind(F[k - 1], LAMBDA acc : MapOne(acc, t.names[k], thr))
    IN F[NCols(t)]

\* a renaming that also selects the renamed columns, dropping the others
RenameSelectsMapped(t, mapping) ==
    LET keep == SelectSeq([k \in 1..NCols(t) |-> k], LAMBDA k : t.names[k] \in DOMAIN mapping)
    IN [index |-> t.index,
        names |-> [i \in 1..Len(keep) |-> mapping[t.names[keep[i]]]],
        cols  |-> [i \in 1..Len(keep) |-> t.cols[keep[i]]]]

\* df.rename(columns=column_mapping) (line 604)
Rename(t, mapping) ==
    [t EXCEPT !.names = [k \in 1..NCols(t) |->
        IF t.names[k] \in DOMAIN mapping THEN mapping[t.names[k]] ELSE t.names[k]]]

\* df[c] = v for a scalar v (line 1059): a label the frame does not have is
\* added as the last column; with the label present, every column that
\* carries it is set to v in all rows
AssignScalar(t, c, v) ==
    IF c \notin Range(t.names)
    THEN [index |-> t.index,
          names |-> Append(t.names, c),
          cols  |-> Append(t.cols, Broadcast(t, v))]
    ELSE [t EXCEPT !.cols = [k \in 1..NCols(t) |->
                                IF t.names[k] = c THEN Broadcast(t, v) ELSE t.cols[k]]]

----------------------------------------------------------------------------
(* Bounds of the inputs *)

MaxCols  == 4     \* columns of an input table
MaxRows  == 2     \* rows of an input table
MaxCells == 6     \* columns x rows of an input table
PipeCols == 2     \* columns of an input file of the pipeline
PipeRows == 2     \* rows of an input file of the pipeline
PipeCells == 4    \* columns x rows of an input file of the pipeline
MaxFiles == 3     \* entries of the folder handed to the batch
DlgCols  == 2     \* columns of an input file of the interactive run
DlgRows  == 1     \* rows of an input file of the interactive run
DlgCells == 2     \* columns x rows of an input file of the interactive run
AnnCols  == 2     \* columns of a table handed to add_manufacturer_column
AnnRows  == 3     \* rows of a table handed to add_manufacturer_column
AnnCells == 6     \* columns x rows of a table handed to add_manufacturer_column

\* column labels of the tables handed to the merge / annotation functions
MergeNames == {"Part Number", "Manufacturer", "VIN Min (V)"}

\* cell contents
CellVals == {NULL, "5", "10"}

\* column labels and cell contents of the tables handed to
\* add_manufacturer_column alone: null, the empty string, two texts
AnnNames == {"Part Number", "Manufacturer"}
AnnVals == {NULL, "", "5", "10"}

\* manufacturer names handed to add_manufacturer_column (stripped, non-empty)
MfrVals == {"TI"}

\* manufacturer_name as typed into the entry field
MfrTyped == {"", " TI "}

\* header texts of the input files of the pipeline; what they match is
\* decided by the scores drawn for them
RawHeaders == {"H1", "H2"}

\* scores process.extractOne may report (below / at or above StdThreshold)
StdScores == {60, 100}

\* scores process.extractOne may report when one header is matched alone
StdScoresFine == {60, 90, 100}

\* thresholds handed to find_best_match (70 is the default)
ThresholdVals == {0, 70, 100}

\* scores fuzz.ratio / fuzz.partial_ratio may report: 0, and values around
\* the threshold and around threshold + 10
FuzzScores(thr) == {x \in {0, thr - 10, thr, thr + 5, thr + 10, thr + 20} : x \in 0..100}

\* headers handed to find_best_match
MatchHeaders == {"Vds Max (V)", " COL -  ", NaNHeader, "", "   ", "column", "Field:"}

\* headers of the tables handed to map_columns
MapHeaders == {"H1", "H2"}

\* whole-string scores drawn for the headers of those tables (below / above
\* the threshold); their partial scores are 0
MapScores == {0, 90}

\* names the user may type into the "Edit Mapping" dialog
EditNames == {"Manufacturer_real", "Notes"}

\* the mapper has not been called
MapperIdle ==
    /\ threshold = 0
    /\ fz = <<>>
    /\ match = [match |-> None, score |-> 0]
    /\ column_mapping = <<>>
    /\ unmapped_columns = <<>>
    /\ mapping_scores = <<>>
    /\ final_mapping = <<>>

\* no batch is running
BatchIdle ==
    /\ folder = <<>>
    /\ pos = 0
    /\ processed = 0
    /\ errors = <<>>
    /\ calls = <<>>

\* the scraper window has not been opened
GuiIdle == [window |-> "open", start_button |-> "normal", stop_button |-> "disabled",
            scraper |-> 0, after |-> <<>>, handled |-> {}]

\* combine_files has not been called
CmbIdle == [pc |-> "idle"]

\* process_any_file hands STANDARD_PARAMS to standardize_columns (line 496);
\* no scraper and no combiner is running
ExtIdle ==
    /\ mapping_arg = STANDARD_PARAMS
    /\ gui = GuiIdle
    /\ scr = <<>>
    /\ threads = <<>>
    /\ cmb = CmbIdle

\* value of result before the call has returned
NoResult == [ok |-> FALSE, payload |-> "pending"]

RangeIndex(n) == [r \in 1..n |-> r - 1]

\* the input file holds one of the tables over the given labels and cells
\* that fit the bounds
LoadedFrom(names, cells, maxcols, maxrows, maxcells) ==
    \E nc \in 1..maxcols, nr \in 1..maxrows :
        /\ nc * nr <= maxcells
        /\ \E ns \in [1..nc -> names], cs \in [1..nc -> [1..nr -> cells]] :
               file = [index |-> RangeIndex(nr), names |-> ns, cols |-> cs]

----------------------------------------------------------------------------
(* SpecMerge: combine_duplicate_columns and add_manufacturer_column applied *)
(* to every table over MergeNames within the bounds.                        *)

InitMerge ==
    /\ pc = "input"
    /\ LoadedFrom(MergeNames, CellVals, MaxCols, MaxRows, MaxCells)
    /\ df = file
    /\ mfr \in MfrVals
    /\ add_manufacturer = TRUE
    /\ wratio = <<>>
    /\ out = <<>>
    /\ result = NoResult
    /\ MapperIdle
    /\ BatchIdle
    /\ ExtIdle

\* df = combine_duplicate_columns(df)
CombineDuplicateColumns ==
    /\ pc = "input"
    /\ df' = combine_duplicate_columns(file)
    /\ pc' = "combined"
    /\ UNCHANGED <<file, mfr, add_manufacturer, wratio, out, result, mapVars, batchVars, extVars>>

\* df = add_manufacturer_column(df, manufacturer_name)
AddManufacturerColumn ==
    /\ pc = "input"
    /\ df' = add_manufacturer_column(file, mfr)
    /\ pc' = "annotated"
    /\ UNCHANGED <<file, mfr, add_manufacturer, wratio, out, result, mapVars, batchVars, extVars>>

NextMerge == CombineDuplicateColumns \/ AddManufacturerColumn

SpecMerge == InitMerge /\ [][NextMerge]_vars

\* SpecAnnotate: the same two functions applied to every table over
\* AnnNames whose cells may also be empty strings.
InitAnnotate ==
    /\ pc = "input"
    /\ LoadedFrom(AnnNames, AnnVals, AnnCols, AnnRows, AnnCells)
    /\ df = file
    /\ mfr \in MfrVals
    /\ add_manufacturer = TRUE
    /\ wratio = <<>>
    /\ out = <<>>
    /\ result = NoResult
    /\ MapperIdle
    /\ BatchIdle
    /\ ExtIdle

SpecAnnotate == InitAnnotate /\ [][NextMerge]_vars

----------------------------------------------------------------------------
(* Spec: process_any_file of src/standerlized.py, stage by stage *)

\* manufacturer_name.strip() on the texts of MfrTyped
Strip(s) == IF s = " TI " THEN "TI" ELSE s

Init ==
    /\ pc = "start"
    /\ LoadedFrom(RawHeaders, CellVals, PipeCols, PipeRows, PipeCells)
    /\ IsDistinct(file.names)   \* read_csv / read_excel make repeated headers distinct
    /\ df = [index |-> <<>>, names |-> <<>>, cols |-> <<>>]
    /\ mfr \in MfrTyped
    /\ add_manufacturer \in BOOLEAN
    /\ \E w \in [RawHeaders -> [DrawnEntries -> StdScores]] : wratio = WithZeroEntries(w)
    /\ out = <<>>
    /\ result = NoResult
    /\ MapperIdle
    /\ BatchIdle
    /\ ExtIdle

\* df = load_file(file_path) (line 495)
LoadFile ==
    /\ pc = "start"
    /\ df' = file
    /\ pc' = "loaded"
    /\ UNCHANGED <<file, mfr, add_manufacturer, wratio, out, result, mapVars, batchVars, extVars>>

\* load_file raises: every reader failed (lines 456-482, 506-507)
LoadFileFails ==
    /\ pc = "start"
    /\ pc' = "failed"
    /\ result' = [ok |-> FALSE, payload |-> "Cannot read file"]
    /\ UNCHANGED <<file, df, mfr, add_manufacturer, wratio, out, mapVars, batchVars, extVars>>

\* df_cleaned = standardize_columns(df, STANDARD_PARAMS) (line 496)
StandardizeColumns ==
    /\ pc = "loaded"
    /\ df' = standardize_columns(df, STANDARD_PARAMS, StdThreshold)
    /\ pc' = "mapped"
    /\ UNCHANGED <<file, mfr, add_manufacturer, wratio, out, result, mapVars, batchVars, extVars>>

\* add_manufacturer_column(df_cleaned, manufacturer_name.strip()) is called
\* when requested with a non-blank name (lines 499-500); its first statement
\* is df = combine_duplicate_columns(df) (line 438)
MergeDuplicates ==
    /\ pc = "mapped"
    /\ add_manufacturer /\ Strip(mfr) # ""
    /\ df' = combine_duplicate_columns(df)
    /\ pc' = "merged"
    /\ UNCHANGED <<file, mfr, add_manufacturer, wratio, out, result, mapVars, batchVars, extVars>>

\* the rest of add_manufacturer_column (lines 440-453); its value becomes
\* df_cleaned
AnnotateManufacturer ==
    /\ pc = "merged"
    /\ df' = AnnotateMerged(df, Strip(mfr))
    /\ pc' = "annotated"
    /\ UNCHANGED <<file, mfr, add_manufacturer, wratio, out, result, mapVars, batchVars, extVars>>

\* the step from which save_file is reached (lines 499-504)
ReadyToSave ==
    \/ pc = "annotated"
    \/ pc = "mapped" /\ ~(add_manufacturer /\ Strip(mfr) # "")

\* save_file(df_cleaned, out_path); return True, filename (lines 502-505)
SaveFile ==
    /\ ReadyToSave
    /\ out' = Append(out, df)
    /\ result' = [ok |-> TRUE, payload |-> "filename"]
    /\ pc' = "saved"
    /\ UNCHANGED <<file, df, mfr, add_manufacturer, wratio, mapVars, batchVars, extVars>>

\* save_file raises (the output cannot be written) (lines 504, 506-507)
SaveFileFails ==
    /\ ReadyToSave
    /\ pc' = "failed"
    /\ result' = [ok |-> FALSE, payload |-> "Cannot write file"]
    /\ UNCHANGED <<file, df, mfr, add_manufacturer, wratio, out, mapVars, batchVars, extVars>>

Next ==
    \/ LoadFile
    \/ LoadFileFails
    \/ StandardizeColumns
    \/ MergeDuplicates
    \/ AnnotateManufacturer
    \/ SaveFile
    \/ SaveFileFails

Spec == Init /\ [][Next]_vars

----------------------------------------------------------------------------
(* SpecBatch: select_folder_for_batch of src/standerlized.py; every         *)
(* eligible entry of the folder goes through process_any_file.              *)

\* entry names os.listdir may return
BatchNames == {"a.csv", "B.XLSX", "notes.txt"}

\* file.lower()
LowerFileName(n) == IF n = "B.XLSX" THEN "b.xlsx" ELSE n

\* the extension a lowered name ends with
Extension(n) ==
    CASE n = "a.csv"  -> ".csv"
      [] n = "b.xlsx" -> ".xlsx"
      [] OTHER        -> ".txt"

\* file.lower().endswith(('.xlsx', '.xls', '.csv')) (line 554)
Eligible(n) == Extension(LowerFileName(n)) \in {".xlsx", ".xls", ".csv"}

\* contents of the eligible files of the folder: one column, one row
BatchTables ==
    {[index |-> RangeIndex(1), names |-> <<h>>, cols |-> << <<"5">> >>] : h \in RawHeaders}

NoTable == [index |-> <<>>, names |-> <<>>, cols |-> <<>>]

\* the counting of lines 557-560 that forgets the failures
TallyForgetsErrors(t, success, res) ==
    IF success THEN [t EXCEPT !.processed = @ + 1] ELSE t

\* lines 557-560: count a success, record the result text of a failure
Tally(t, success, res) ==
    IF success THEN [t EXCEPT !.processed = @ + 1]
    ELSE [t EXCEPT !.errors = Append(@, res)]

\* the string process_any_file returns for a failure (line 507)
ErrorText(name, cause) == [file |-> name, cause |-> cause]

InitBatch ==
    /\ pc = "b_start"
    /\ \E n \in 0..MaxFiles :
          \E names \in [1..n -> BatchNames], tables \in [1..n -> BatchTables \cup {NoTable}] :
              /\ IsDistinct(names)      \* a directory holds a name once
              /\ \A i \in 1..n : (tables[i] = NoTable) <=> ~Eligible(names[i])
              /\ folder = [i \in 1..n |-> [name |-> names[i], table |-> tables[i]]]
    /\ file = NoTable
    /\ df = NoTable
    /\ mfr \in MfrTyped
    /\ add_manufacturer \in BOOLEAN
    /\ \E w \in [RawHeaders -> [DrawnEntries -> StdScores]] : wratio = WithZeroEntries(w)
    /\ out = <<>>
    /\ result = NoResult
    /\ MapperIdle
    /\ pos = 0
    /\ processed = 0
    /\ errors = <<>>
    /\ calls = <<>>
    /\ ExtIdle

\* the option is ticked and the name is blank: warning, return (lines 544-546)
BatchRejected ==
    /\ pc = "b_start"
    /\ add_manufacturer /\ Strip(mfr) = ""
    /\ pc' = "b_rejected"
    /\ UNCHANGED <<file, df, mfr, add_manufacturer, wratio, out, result, mapVars, batchVars, extVars>>

\* processed = 0; errors = []; the loop starts (lines 548-553)
BatchBegin ==
    /\ pc = "b_start"
    /\ ~(add_manufacturer /\ Strip(mfr) = "")
    /\ processed' = 0
    /\ errors' = <<>>
    /\ pos' = 1
    /\ pc' = "b_loop"
    /\ UNCHANGED <<file, df, mfr, add_manufacturer, wratio, out, result, mapVars, folder, calls, extVars>>

\* an entry that is not .xlsx/.xls/.csv is passed over (line 554)
BatchSkip ==
    /\ pc = "b_loop"
    /\ pos <= Len(folder)
    /\ ~Eligible(folder[pos].name)
    /\ pos' = pos + 1
    /\ UNCHANGED <<pc, file, df, mfr, add_manufacturer, wratio, out, result, mapVars,
                   folder, processed, errors, calls, extVars>>

\* success, result = process_any_file(full_path, out_dir, add_mfr, mfr_name):
\* the call is entered (line 556)
BatchCall ==
    /\ pc = "b_loop"
    /\ pos <= Len(folder)
    /\ Eligible(folder[pos].name)
    /\ file' = folder[pos].table
    /\ df' = NoTable
    /\ result' = NoResult
    /\ calls' = Append(calls, folder[pos].name)
    /\ pc' = "start"
    /\ UNCHANGED <<mfr, add_manufacturer, wratio, out, mapVars, folder, pos, processed, errors, extVars>>

\* the call has returned: processed += 1 or errors.append(result) (lines 557-560)
BatchCollect ==
    /\ pc \in {"saved", "failed"}
    /\ pos >= 1
    /\ \E t \in {Tally([processed |-> processed, errors |-> errors], result.ok,
                        ErrorText(folder[pos].name, result.payload))} :
          /\ processed' = t.processed
          /\ errors' = t.errors
    /\ pos' = pos + 1
    /\ pc' = "b_loop"
    /\ UNCHANGED <<file, df, mfr, add_manufacturer, wratio, out, result, mapVars, folder, calls, extVars>>

\* the loop has ended: the summary is shown (lines 562-567)
BatchReport ==
    /\ pc = "b_loop"
    /\ pos > Len(folder)
    /\ pc' = "b_done"
    /\ UNCHANGED <<file, df, mfr, add_manufacturer, wratio, out, result, mapVars, batchVars, extVars>>

NextBatch ==
    \/ BatchRejected
    \/ BatchBegin
    \/ BatchSkip
    \/ BatchCall
    \/ LoadFile
    \/ LoadFileFails
    \/ StandardizeColumns
    \/ MergeDuplicates
    \/ AnnotateManufacturer
    \/ SaveFile
    \/ SaveFileFails
    \/ BatchCollect
    \/ BatchReport

SpecBatch == InitBatch /\ [][NextBatch]_vars

----------------------------------------------------------------------------
(* SpecMatch: find_best_match (standerlized2.py) and the matching loop of   *)
(* standardize_columns (standerlized.py) applied to one header, for every   *)
(* combination of scores the library may report.                            *)

\* find_best_match is about to be called with a header and a threshold
InitFind ==
    /\ pc = "find"
    /\ threshold \in ThresholdVals
    /\ \E h \in MatchHeaders :
          /\ file = [index |-> RangeIndex(1), names |-> <<h>>, cols |-> <<<<"5">>>>]
          \* scores are drawn for every header: the return of line 520 comes
          \* before any score is computed
          /\ \E rt \in [DrawnRatioTargets -> FuzzScores(threshold)],
                pt \in [DrawnPartialTargets -> FuzzScores(threshold)] :
                 fz = [x \in {h} |-> [ratio   |-> WithZeros(rt, RatioTargets),
                                       partial |-> WithZeros(pt, PartialTargets)]]
    /\ wratio = <<>>

\* standardize_columns is about to be called on a one-column table
InitStd ==
    /\ pc = "loaded"
    /\ threshold = 0
    /\ \E h \in RawHeaders :
          /\ file = [index |-> RangeIndex(1), names |-> <<h>>, cols |-> <<<<"5">>>>]
          /\ wratio \in [{h} -> [1..Len(STANDARD_PARAMS) -> StdScoresFine]]
    /\ fz = <<>>

InitMatch ==
    /\ InitFind \/ InitStd
    /\ df = file
    /\ mfr = ""
    /\ add_manufacturer = FALSE
    /\ out = <<>>
    /\ result = NoResult
    /\ match = [match |-> None, score |-> 0]
    /\ column_mapping = <<>>
    /\ unmapped_columns = <<>>
    /\ mapping_scores = <<>>
    /\ final_mapping = <<>>
    /\ BatchIdle
    /\ ExtIdle

\* best_match, score = self.find_best_match(col, threshold)
FindBestMatch ==
    /\ pc = "find"
    /\ match' = find_best_match(file.names[1], threshold)
    /\ pc' = "found"
    /\ UNCHANGED <<file, df, mfr, add_manufacturer, wratio, out, result, threshold, fz, column_mapping, unmapped_columns, mapping_scores, final_mapping, batchVars, extVars>>

NextMatch == FindBestMatch \/ StandardizeColumns

SpecMatch == InitMatch /\ [][NextMatch]_vars

----------------------------------------------------------------------------
(* SpecMap: MOSFETColumnMapper.map_columns, called on a frame directly or   *)
(* from process_excel_file (standerlized2.py), stage by stage.              *)

InitMap ==
    /\ LoadedFrom(MapHeaders, CellVals, PipeCols, PipeRows, PipeCells)
    /\ \/ /\ pc = "call_map_columns"      \* any frame, labels may repeat
          /\ df = file
       \/ /\ pc = "x_start"               \* a file read by pandas: labels distinct
          /\ IsDistinct(file.names)
          /\ df = [index |-> <<>>, names |-> <<>>, cols |-> <<>>]
    /\ threshold = 70
    /\ \E rt \in [Range(file.names) -> [DrawnRatioTargets -> MapScores]] :
          fz = [h \in Range(file.names) |->
                   [ratio   |-> WithZeros(rt[h], RatioTargets),
                    partial |-> [y \in PartialTargets |-> 0]]]
    /\ mfr = ""
    /\ add_manufacturer = FALSE
    /\ wratio = <<>>
    /\ out = <<>>
    /\ result = NoResult
    /\ match = [match |-> None, score |-> 0]
    /\ column_mapping = <<>>
    /\ unmapped_columns = <<>>
    /\ mapping_scores = <<>>
    /\ final_mapping = <<>>
    /\ BatchIdle
    /\ ExtIdle

\* a member of a returned tuple: a value, or Python None
Some(x) == <<x>>
Nothing == <<>>

\* the except branch that still hands out the table
ExceptReturnKeepsTable(t) == <<Some(t), Nothing, Nothing, Nothing>>

\* return None, None, None, None (line 619), t being the table held when
\* the exception was raised
ExceptReturn(t) == <<Nothing, Nothing, Nothing, Nothing>>

\* return mapped_df, column_mapping, unmapped_columns, mapping_scores (line 615)
MappedReturn ==
    <<Some(df), Some(column_mapping), Some(unmapped_columns), Some(mapping_scores)>>

\* df = pd.read_csv(file_path) / pd.read_excel(file_path) (lines 568-580)
ReadFile ==
    /\ pc = "x_start"
    /\ df' = file
    /\ pc' = "x_loaded"
    /\ UNCHANGED <<file, mfr, add_manufacturer, wratio, out, result, mapVars, batchVars, extVars>>

\* the reader raises: return None, None, None, None (lines 617-619)
ReadFileFails ==
    /\ pc = "x_start"
    /\ pc' = "x_failed"
    /\ result' = [ok |-> FALSE, payload |-> ExceptReturn(df)]
    /\ UNCHANGED <<file, df, mfr, add_manufacturer, wratio, out, mapVars, batchVars, extVars>>

\* column_mapping, unmapped_columns, mapping_scores = self.map_columns(df, threshold)
MapColumns ==
    /\ pc \in {"call_map_columns", "x_loaded", "i_loaded"}
    /\ \E r \in {map_columns(df, threshold)} :
          /\ column_mapping' = r.column_mapping
          /\ unmapped_columns' = r.unmapped_columns
          /\ mapping_scores' = r.mapping_scores
    /\ pc' = CASE pc = "x_loaded" -> "x_mapped"
               [] pc = "i_loaded" -> "i_mapped"
               [] OTHER           -> "map_columns_returned"
    /\ UNCHANGED <<file, df, mfr, add_manufacturer, wratio, out, result, threshold, fz, match,
                   final_mapping, batchVars, extVars>>

\* mapped_df = df.rename(columns=column_mapping) (line 604)
RenameColumns ==
    /\ pc = "x_mapped"
    /\ df' = Rename(df, column_mapping)
    /\ pc' = "x_renamed"
    /\ UNCHANGED <<file, mfr, add_manufacturer, wratio, out, result, mapVars, batchVars, extVars>>

\* output_file given: mapped_df.to_csv / to_excel, then return (lines 607-615)
SaveMapped ==
    /\ pc = "x_renamed"
    /\ out' = Append(out, df)
    /\ result' = [ok |-> TRUE, payload |-> MappedReturn]
    /\ pc' = "x_done"
    /\ UNCHANGED <<file, df, mfr, add_manufacturer, wratio, mapVars, batchVars, extVars>>

\* no output_file: return without writing (lines 607, 615)
ReturnMapped ==
    /\ pc = "x_renamed"
    /\ result' = [ok |-> TRUE, payload |-> MappedReturn]
    /\ pc' = "x_done"
    /\ UNCHANGED <<file, df, mfr, add_manufacturer, wratio, out, mapVars, batchVars, extVars>>

\* writing raises: return None, None, None, None (lines 607-619)
SaveMappedFails ==
    /\ pc = "x_renamed"
    /\ result' = [ok |-> FALSE, payload |-> ExceptReturn(df)]
    /\ pc' = "x_failed"
    /\ UNCHANGED <<file, df, mfr, add_manufacturer, wratio, out, mapVars, batchVars, extVars>>

NextMap ==
    \/ ReadFile
    \/ ReadFileFails
    \/ MapColumns
    \/ RenameColumns
    \/ SaveMapped
    \/ ReturnMapped
    \/ SaveMappedFails

SpecMap == InitMap /\ [][NextMap]_vars

\* SpecCalls: a call of process_any_file or a call of map_columns /
\* process_excel_file, whichever the caller makes
NextCalls ==
    \/ LoadFile
    \/ LoadFileFails
    \/ StandardizeColumns
    \/ MergeDuplicates
    \/ AnnotateManufacturer
    \/ SaveFile
    \/ SaveFileFails
    \/ ReadFile
    \/ ReadFileFails
    \/ MapColumns
    \/ RenameColumns
    \/ SaveMapped
    \/ ReturnMapped
    \/ SaveMappedFails

InitCalls == Init \/ InitMap

SpecCalls == InitCalls /\ [][NextCalls]_vars

----------------------------------------------------------------------------
(* SpecSchema: the same matching applied to headers whose texts are given,  *)
(* at the default thresholds.  Scores the library is certain to report are  *)
(* fixed: 100 for identical texts, 100 for the partial ratio when one text  *)
(* contains the other; every other score is drawn.                          *)

\* p occurs in s as a contiguous part
Contains(s, p) == \E i \in 0..(Len(s) - Len(p)) : SubSeq(s, i + 1, i + Len(p)) = p

\* the characters of a text a header is compared with
TargetChars(t) ==
    IF \E e \in 1..Len(standard_columns) : LowerText(standard_columns[e].name) = t
    THEN LowerSeq(Chars(
             standard_columns[CHOOSE e \in 1..Len(standard_columns) :
                                  LowerText(standard_columns[e].name) = t].name))
    ELSE Chars(t)

\* the scores of header h: fuzz.ratio is 100 for identical texts,
\* fuzz.partial_ratio is 100 when the shorter text occurs in the longer;
\* all its other scores are taken to be other
ScoresOf(h, other) ==
    LET c == clean_column_name(h)
    IN [ratio   |-> [t \in RatioTargets |-> IF c = TargetChars(t) THEN 100 ELSE other],
        partial |-> [t \in PartialTargets |->
                        IF Contains(c, TargetChars(t)) \/ Contains(TargetChars(t), c)
                        THEN 100 ELSE other]]

\* process.extractOne scores of header h for entry e of STANDARD_PARAMS: 100
\* when h is the entry's name; 90 for "Type" and "Part Number", whose
\* alternative "type number" (line 9) contains "type" (WRatio: partial ratio
\* 100 scaled by 0.9); every other score is taken to be other
KnownWRatio(h, e, other) ==
    CASE STANDARD_PARAMS[e] = h                      -> 100
      [] h = "Type" /\ STANDARD_PARAMS[e] = "Part Number" -> 90
      [] OTHER                                       -> other

\* default threshold of find_best_match / map_columns (lines 515, 548)
MapThreshold == 70

\* the standard names of the mapper's schema
CanonicalNames == {standard_columns[e].name : e \in 1..Len(standard_columns)}

\* the headers of the end-to-end scenario
ScenarioHeaders == <<"Vds Max (V)", "rds_on", "vendor">>

\* scores drawn for texts that neither equal nor contain one another
OtherScores == {0, 50, 90}
OtherStdScores == {0, 60}

OneColumn(h) == [index |-> RangeIndex(1), names |-> <<h>>, cols |-> << <<"5">> >>]

InitSchema ==
    /\ \/ /\ pc = "find"
          /\ \E h \in CanonicalNames \cup Range(ScenarioHeaders), o \in OtherScores :
                /\ file = OneColumn(h)
                /\ fz = [x \in {h} |-> ScoresOf(h, o)]
          /\ threshold = MapThreshold
          /\ wratio = <<>>
       \/ /\ pc = "call_map_columns"
          /\ \E ns \in {ScenarioHeaders} \cup {<<n>> : n \in CanonicalNames} :
                /\ file = [index |-> RangeIndex(1), names |-> ns,
                           cols |-> [k \in 1..Len(ns) |-> <<"5">>]]
                /\ \E o \in [Range(ns) -> OtherScores] :
                       fz = [h \in Range(ns) |-> ScoresOf(h, o[h])]
          /\ threshold = MapThreshold
          /\ wratio = <<>>
       \/ /\ pc = "loaded"
          /\ \E h \in Range(STANDARD_PARAMS) :
                /\ file = OneColumn(h)
                /\ \E o \in [1..Len(STANDARD_PARAMS) -> OtherStdScores] :
                       wratio = [x \in {h} |->
                                    [e \in 1..Len(STANDARD_PARAMS) |-> KnownWRatio(h, e, o[e])]]
          /\ threshold = 0
          /\ fz = <<>>
    /\ df = file
    /\ mfr = ""
    /\ add_manufacturer = FALSE
    /\ out = <<>>
    /\ result = NoResult
    /\ match = [match |-> None, score |-> 0]
    /\ column_mapping = <<>>
    /\ unmapped_columns = <<>>
    /\ mapping_scores = <<>>
    /\ final_mapping = <<>>
    /\ BatchIdle
    /\ ExtIdle

NextSchema == FindBestMatch \/ MapColumns \/ StandardizeColumns

SpecSchema == InitSchema /\ [][NextSchema]_vars

----------------------------------------------------------------------------
(* SpecInteractive: one pass of the loop of InteractiveColumnMapper.        *)
(* run_interactive (standerlized2.py) from the point where the input file   *)
(* has been read.                                                           *)

InitInteractive ==
    /\ pc = "i_loaded"
    /\ LoadedFrom(MapHeaders, CellVals, DlgCols, DlgRows, DlgCells)
    /\ IsDistinct(file.names)   \* read_csv / read_excel make repeated headers distinct
    /\ df = file
    /\ threshold = 70
    /\ \E rt \in [Range(file.names) -> [DrawnRatioTargets -> MapScores]] :
          fz = [h \in Range(file.names) |->
                   [ratio   |-> WithZeros(rt[h], RatioTargets),
                    partial |-> [y \in PartialTargets |-> 0]]]
    /\ mfr = ""
    /\ add_manufacturer = FALSE
    /\ wratio = <<>>
    /\ out = <<>>
    /\ result = NoResult
    /\ match = [match |-> None, score |-> 0]
    /\ column_mapping = <<>>
    /\ unmapped_columns = <<>>
    /\ mapping_scores = <<>>
    /\ final_mapping = <<>>
    /\ BatchIdle
    /\ ExtIdle

\* show_preview_dialog, "Proceed with Mapping" pressed (lines 756-924): the
\* user may have edited the target of mapped headers, ticked the
\* Manufacturer_real box and chosen a manufacturer
PreviewProceed ==
    /\ pc = "i_mapped"
    /\ \E edits \in [DOMAIN column_mapping -> EditNames \cup {None}] :
          final_mapping' = [h \in DOMAIN column_mapping |->
                               IF edits[h] = None THEN column_mapping[h] ELSE edits[h]]
    /\ add_manufacturer' \in BOOLEAN
    /\ mfr' \in MfrVals
    /\ pc' = "i_confirmed"
    /\ UNCHANGED <<file, df, wratio, out, result, threshold, fz, match,
                   column_mapping, unmapped_columns, mapping_scores, batchVars, extVars>>

\* show_preview_dialog, "Cancel" pressed: the file is skipped (lines 1023-1025)
PreviewCancel ==
    /\ pc = "i_mapped"
    /\ pc' = "i_skipped"
    /\ UNCHANGED <<file, df, mfr, add_manufacturer, wratio, out, result, mapVars, batchVars, extVars>>

\* mapped_df = df_values.rename(columns=final_mapping) (line 1055)
RenameFinal ==
    /\ pc = "i_confirmed"
    /\ df' = Rename(df, final_mapping)
    /\ pc' = "i_renamed"
    /\ UNCHANGED <<file, mfr, add_manufacturer, wratio, out, result, mapVars, batchVars, extVars>>

\* mapped_df['Manufacturer_real'] = manufacturer_name, when the box is
\* ticked (lines 1058-1060)
AddManufacturerReal ==
    /\ pc = "i_renamed"
    /\ add_manufacturer
    /\ df' = AssignScalar(df, "Manufacturer_real", mfr)
    /\ pc' = "i_annotated"
    /\ UNCHANGED <<file, mfr, add_manufacturer, wratio, out, result, mapVars, batchVars, extVars>>

\* the step from which the file is written (lines 1058-1068)
ReadyToSaveMapped ==
    \/ pc = "i_annotated"
    \/ pc = "i_renamed" /\ ~add_manufacturer

\* mapped_df.to_csv / to_excel (lines 1063-1068)
SaveInteractive ==
    /\ ReadyToSaveMapped
    /\ out' = Append(out, df)
    /\ pc' = "i_saved"
    /\ UNCHANGED <<file, df, mfr, add_manufacturer, wratio, result, mapVars, batchVars, extVars>>

\* writing raises: the error is shown and the file is skipped (lines 1082-1085)
SaveInteractiveFails ==
    /\ ReadyToSaveMapped
    /\ pc' = "i_save_failed"
    /\ UNCHANGED <<file, df, mfr, add_manufacturer, wratio, out, result, mapVars, batchVars, extVars>>

NextInteractive ==
    \/ MapColumns
    \/ PreviewProceed
    \/ PreviewCancel
    \/ RenameFinal
    \/ AddManufacturerReal
    \/ SaveInteractive
    \/ SaveInteractiveFails

SpecInteractive == InitInteractive /\ [][NextInteractive]_vars

----------------------------------------------------------------------------
(* Vocabulary of the properties *)

\* positions of label c in a table
Positions(t, c) == {k \in 1..NCols(t) : t.names[k] = c}

\* position of the first column labelled c
FirstPos(t, c) == CHOOSE k \in Positions(t, c) : \A j \in Positions(t, c) : k <= j

\* the cells of row r under the columns labelled c, left to right
GroupRow(t, c, r) ==
    LET g == SortedSeq(Positions(t, c)) IN [n \in 1..Len(g) |-> t.cols[g[n]][r]]

\* the non-null cells among a row's cells, in order
NonNull(row) == SelectSeq(row, LAMBDA v : v # NULL)

\* the table without its k-th column
Drop(t, k) ==
    [index |-> t.index,
     names |-> SubSeq(t.names, 1, k - 1) \o SubSeq(t.names, k + 1, NCols(t)),
     cols  |-> SubSeq(t.cols, 1, k - 1) \o SubSeq(t.cols, k + 1, NCols(t))]

\* the value a row of a group merges to, cell by cell from the left:
\* null is absorbed, an equal value is kept once, a different value is
\* appended after " | "
RowFold(row) ==
    LET F[n \in 0..Len(row)] ==
            IF n = 0 THEN NULL
            ELSE Bind(F[n - 1], LAMBDA merged :
                     CASE merged = NULL     -> row[n]
                       [] row[n] = NULL     -> merged
                       [] merged = row[n]   -> merged
                       [] OTHER             -> merged \o " | " \o row[n])
    IN F[Len(row)]

----------------------------------------------------------------------------
(* Properties of combine_duplicate_columns (SpecMerge) *)

\* C1: the table returned by combine_duplicate_columns has pairwise distinct
\* column names, and each name of the input occurs in it (exactly once).
C1_DistinctNames ==
    pc = "combined" =>
        /\ IsDistinct(df.names)
        /\ \A c \in Range(file.names) : Cardinality(Positions(df, c)) = 1
        /\ Range(df.names) \subseteq Range(file.names)

\* C1 witness: an input with two different duplicate groups has been merged
C1_Witness ==
    /\ pc = "combined"
    /\ Cardinality({c \in Range(file.names) : Cardinality(Positions(file, c)) >= 2}) >= 2

\* C7: per row of a duplicate group, the merged cell is null iff every member
\* is null there, and equals the only non-null member when there is exactly one.
C7_NullUnion ==
    pc = "combined" =>
        \A c \in Range(file.names) :
            Cardinality(Positions(file, c)) >= 2 =>
                \A r \in 1..NRows(file) :
                    LET row    == GroupRow(file, c, r)
                        merged == df.cols[FirstPos(df, c)][r]
                    IN /\ (merged = NULL) <=> (NonNull(row) = <<>>)
                       /\ Len(NonNull(row)) = 1 => merged = NonNull(row)[1]

\* C7 witness: A = ["5", null], B = [null, "10"] have merged to ["5", "10"]
C7_Witness ==
    /\ pc = "combined"
    /\ \E c \in Range(file.names) :
          /\ Cardinality(Positions(file, c)) = 2
          /\ NRows(file) = 2
          /\ GroupRow(file, c, 1) = <<"5", NULL>>
          /\ GroupRow(file, c, 2) = <<NULL, "10">>
          /\ df.cols[FirstPos(df, c)] = <<"5", "10">>

\* C8: folding a group from the left, a non-null value that differs from the
\* non-null running value is appended as "<merged> | <next>", an equal one
\* leaves the running value as it is.
C8_ConflictConcat ==
    pc = "combined" =>
        \A c \in Range(file.names) :
            Cardinality(Positions(file, c)) >= 2 =>
                \A r \in 1..NRows(file) :
                    df.cols[FirstPos(df, c)][r] = RowFold(GroupRow(file, c, r))

\* C8 witness: "5" and "10" in one row of a group have merged to "5 | 10",
\* and "5" and "5" in another row to "5"
C8_Witness ==
    /\ pc = "combined"
    /\ \E c \in Range(file.names) :
          /\ NRows(file) = 2
          /\ GroupRow(file, c, 1) = <<"5", "10">>
          /\ GroupRow(file, c, 2) = <<"5", "5">>
          /\ df.cols[FirstPos(df, c)] = <<"5 | 10", "5">>

\* C9: columns outside any duplicate group keep name and cells; every name
\* appears once, ordered by the position of its first (leftmost) column.
C9_PassThrough ==
    pc = "combined" =>
        /\ \A c \in Range(file.names) :
              Cardinality(Positions(file, c)) = 1 =>
                  /\ Cardinality(Positions(df, c)) = 1
                  /\ df.cols[FirstPos(df, c)] = file.cols[FirstPos(file, c)]
        /\ \A c, d \in Range(file.names) :
              /\ Cardinality(Positions(df, c)) = 1
              /\ FirstPos(file, c) < FirstPos(file, d) => FirstPos(df, c) < FirstPos(df, d)

\* C9 witness: a group whose members enclose a single column has been merged
C9_Witness ==
    /\ pc = "combined"
    /\ \E i, j, k \in 1..NCols(file) :
          /\ i < j /\ j < k
          /\ file.names[i] = file.names[k]
          /\ Cardinality(Positions(file, file.names[j])) = 1
    /\ NCols(df) < NCols(file)

----------------------------------------------------------------------------
(* Properties of add_manufacturer_column (SpecMerge) *)

\* df is base with one "Manufacturer" column put in: right after
\* "Part Number" when base has one, first otherwise, every row equal to mfr
ManufacturerInserted(base) ==
    /\ Cardinality(Positions(df, "Manufacturer")) = 1
    /\ LET k == FirstPos(df, "Manufacturer")
       IN /\ IF "Part Number" \in Range(base.names)
             THEN k > 1 /\ df.names[k - 1] = "Part Number"
             ELSE k = 1
          /\ df.cols[k] = [r \in 1..NRows(file) |-> mfr]
          /\ Drop(df, k) = base

AnnotatedExisting ==
    /\ pc = "annotated"
    /\ Cardinality(Positions(file, "Manufacturer")) = 1

\* C11 (as stated): an existing "Manufacturer" column that is entirely
\* null/empty (any mix of null cells and empty strings), or whose rows all
\* hold one identical value, is overwritten in every row with the supplied
\* manufacturer value.
C11_EmptyOrUniformOverwritten ==
    AnnotatedExisting =>
        LET old == Col(file, "Manufacturer")
        IN (\/ Range(old) \subseteq {NULL, ""}
            \/ Cardinality(Range(old)) = 1)
           => Col(df, "Manufacturer") = [r \in 1..NRows(file) |-> mfr]

\* C12 (as stated): an existing "Manufacturer" column with at least two
\* different non-null values is left untouched: every cell, null cells
\* included, has the same value after the call as before.
C12_HeterogeneousUntouched ==
    AnnotatedExisting =>
        (Nunique(Col(file, "Manufacturer")) >= 2
            => Col(df, "Manufacturer") = Col(file, "Manufacturer"))

----------------------------------------------------------------------------
(* Properties of the process_any_file pipeline (Spec) *)

\* the texts row r of the loaded file can give rise to: its own cells, the
\* merge of two of them (left before right), the manufacturer name, null
RowTexts(r) ==
    {NULL, Strip(mfr)}
    \cup {file.cols[i][r] : i \in 1..NCols(file)}
    \cup {RowFold(<<file.cols[i][r], file.cols[j][r]>>) :
             <<i, j>> \in {x \in (1..NCols(file)) \X (1..NCols(file)) : x[1] < x[2]}}

\* C2 (as stated): every table written by a successful run has pairwise
\* distinct column names, with and without manufacturer annotation.
C2_SavedNamesDistinct ==
    \A i \in 1..Len(out) : IsDistinct(out[i].names)

\* C3: renaming, duplicate merge and manufacturer annotation keep the number
\* and the order of the rows: the row labels stay as loaded, every column has
\* one cell per row, and the cells of row r stem from row r of the input.
C3_RowsPreserved ==
    pc \in {"loaded", "mapped", "merged", "annotated", "saved"} =>
        /\ df.index = file.index
        /\ \A k \in 1..NCols(df) :
              /\ Len(df.cols[k]) = NRows(file)
              /\ \A r \in 1..NRows(file) : df.cols[k][r] \in RowTexts(r)

\* C3 witness: a two-row file whose two columns were renamed to one name,
\* merged and annotated, with different texts in its two rows
C3_Witness ==
    /\ pc = "annotated"
    /\ NRows(file) = 2 /\ NCols(file) = 2
    /\ NCols(df) = 2
    /\ file.cols[1] = <<NULL, "5">>
    /\ file.cols[2] = <<"10", "5">>

----------------------------------------------------------------------------
(* Properties of the matching (SpecMatch) *)

MaxOf(S) == CHOOSE x \in S : \A y \in S : y <= x

\* the scores of entry e for header h that may count: the whole-string
\* ratios of its name and synonyms, and the partial ratios of its synonyms
\* that reach thr + 10
EntryScores(h, e, thr) ==
    {Ratio(h, LowerText(standard_columns[e].name))}
    \cup {Ratio(h, LowerText(p)) : p \in Range(standard_columns[e].patterns)}
    \cup {PartialRatio(h, LowerText(p)) :
             p \in {q \in Range(standard_columns[e].patterns) :
                       PartialRatio(h, LowerText(q)) >= thr + 10}}

\* the maximum score found for header h over all schema entries
MaxScoreFound(h, thr) ==
    MaxOf(UNION {EntryScores(h, e, thr) : e \in 1..Len(standard_columns)})

\* the position of a standard name in the schema
EntryOf(name) == CHOOSE e \in 1..Len(standard_columns) : standard_columns[e].name = name

\* C4 (as stated): for a header that is non-empty after cleaning,
\* find_best_match returns a canonical name if and only if the maximum score
\* found over all schema entries is >= the threshold.
C4_MappedIffMaxReachesThreshold ==
    (pc = "found" /\ clean_column_name(file.names[1]) # <<>>) =>
        /\ match.score = MaxScoreFound(file.names[1], threshold)
        /\ (match.match # None) <=> (MaxScoreFound(file.names[1], threshold) >= threshold)

\* C5 (as stated): whenever a header is mapped, no schema entry scores
\* strictly higher for it than the entry chosen, in find_best_match and in
\* standardize_columns.
C5_ChosenEntryIsBest ==
    /\ (pc = "found" /\ match.match # None) =>
           \A e \in 1..Len(standard_columns) :
               MaxOf(EntryScores(file.names[1], e, threshold))
                   <= MaxOf(EntryScores(file.names[1], EntryOf(match.match), threshold))
    /\ (pc = "mapped" /\ df.names[1] # file.names[1]) =>
           \A e \in 1..Len(STANDARD_PARAMS) :
               ExtractOneScore(file.names[1], e)
                   <= ExtractOneScore(file.names[1],
                          CHOOSE c \in 1..Len(STANDARD_PARAMS) : STANDARD_PARAMS[c] = df.names[1])

----------------------------------------------------------------------------
(* Properties of map_columns (SpecMap) *)

\* C6 (as stated): map_columns yields one outcome per column position, so
\* len(column_mapping) + len(unmapped_columns) is the number of columns, also
\* when two columns carry the same header text.
C6_OneOutcomePerColumn ==
    pc \in {"map_columns_returned", "x_mapped"} =>
        /\ Cardinality(DOMAIN column_mapping) + Len(unmapped_columns) = NCols(file)
        /\ \A k \in 1..NCols(file) :
              (file.names[k] \in DOMAIN column_mapping)
                  <=> (file.names[k] \notin Range(unmapped_columns))

----------------------------------------------------------------------------
(* Properties of run_interactive (SpecInteractive) *)

\* C13 (as stated): with the 'Manufacturer_real' option enabled the output
\* gains one new 'Manufacturer_real' column filled with the supplied value:
\* the column count grows by exactly one, the new column is the last one,
\* and every column that existed before the step keeps name and values.
C13_ManufacturerRealAlwaysNew ==
    pc = "i_annotated" =>
        LET before == Rename(file, final_mapping)
        IN /\ NCols(df) = NCols(before) + 1
           /\ df.names[NCols(df)] = "Manufacturer_real"
           /\ df.cols[NCols(df)] = [r \in 1..NRows(file) |-> mfr]
           /\ Drop(df, NCols(df)) = before

----------------------------------------------------------------------------
(* Properties of select_folder_for_batch (SpecBatch) *)

\* the names of the eligible entries among the first k of the listing
EligibleUpTo(k) ==
    SelectSeq([i \in 1..k |-> folder[i].name], Eligible)

\* C14: every eligible file of the folder is handed to process_any_file
\* exactly once, in listing order; a failure is recorded with file and cause
\* and the loop goes on with the next entry; when the batch ends,
\* processed + len(errors) is the number of eligible files.
C14_BatchAccounting ==
    /\ pc = "b_loop" =>
           /\ calls = EligibleUpTo(pos - 1)
           /\ processed + Len(errors) = Len(calls)
    /\ pc \in {"start", "loaded", "mapped", "merged", "annotated", "saved", "failed"} =>
           /\ pos <= Len(folder)
           /\ calls = EligibleUpTo(pos)
           /\ processed + Len(errors) = Len(calls) - 1
    /\ pc = "b_done" =>
           /\ calls = EligibleUpTo(Len(folder))
           /\ IsDistinct(calls)
           /\ processed + Len(errors) = Len(calls)
           /\ processed = Len(out)
           /\ IsDistinct([i \in 1..Len(errors) |-> errors[i].file])
           /\ \A i \in 1..Len(errors) :
                  /\ errors[i].file \in Range(calls)
                  /\ errors[i].cause \in {"Cannot read file", "Cannot write file"}
    /\ pc \notin {"b_done", "b_rejected"} => ENABLED NextBatch

\* C14 witness: the batch has ended with the first eligible file failed and
\* recorded, and the file after it processed
C14_Witness ==
    /\ pc = "b_done"
    /\ Len(calls) = 2
    /\ processed = 1
    /\ Len(errors) = 1
    /\ errors[1].file = calls[1]

\* C15 (as stated): a run passes through Loaded, Mapped, Merged, Annotated,
\* Finalized (saved) in exactly that order, without skipping, repeating or
\* going back; a stage that raises ends the run in Failed, after which no
\* stage is executed and nothing is saved for that table; the outputs of
\* the other files of the batch stay as they are.
C15_StagesInOrder ==
    [][ /\ pc = "start"     => pc' \in {"loaded", "failed"}
        /\ pc = "loaded"    => pc' \in {"mapped", "failed"}
        /\ pc = "mapped"    => pc' \in {"merged", "failed"}
        /\ pc = "merged"    => pc' \in {"annotated", "failed"}
        /\ pc = "annotated" => pc' \in {"saved", "failed"}
        /\ pc \in {"saved", "failed"} => pc' = "b_loop"
        /\ pc' = "failed" \/ pc = "failed" => out' = out
        /\ Len(out') >= Len(out)
        /\ \A i \in 1..Len(out) : out'[i] = out[i]
        /\ folder' = folder ]_vars

----------------------------------------------------------------------------
(* Properties of the calls as their callers see them (SpecCalls) *)

\* C16: a call of process_any_file or process_excel_file ends in exactly one
\* of two outcomes and never raises: success with the complete output
\* written and (True, filename), resp. the mapped table with mapping,
\* unmapped list and scores; or failure with the cause and nothing written,
\* resp. four None values.  No mixture of the two is returned, and nothing
\* is returned or written before the end.
C16_TwoOutcomes ==
    /\ pc \in {"start", "loaded", "mapped", "merged", "annotated", "saved", "failed",
               "call_map_columns", "map_columns_returned",
               "x_start", "x_loaded", "x_mapped", "x_renamed", "x_done", "x_failed"}
    /\ pc \in {"start", "loaded", "mapped", "merged", "annotated",
               "x_start", "x_loaded", "x_mapped", "x_renamed"} =>
           /\ result = NoResult
           /\ out = <<>>
    /\ pc = "saved" =>
           /\ result = [ok |-> TRUE, payload |-> "filename"]
           /\ out = <<df>>
    /\ pc = "failed" =>
           /\ ~result.ok
           /\ result.payload \in {"Cannot read file", "Cannot write file"}
           /\ out = <<>>
    /\ pc = "x_done" =>
           /\ result.ok
           /\ result.payload = <<Some(Rename(file, column_mapping)), Some(column_mapping),
                                 Some(unmapped_columns), Some(mapping_scores)>>
           /\ out \in {<<>>, <<df>>}
    /\ pc = "x_failed" =>
           /\ ~result.ok
           /\ \A i \in 1..4 : result.payload[i] = Nothing
           /\ out = <<>>

\* C16 witness: process_excel_file has failed while writing a table it had
\* mapped and renamed, and has returned four None values
C16_Witness ==
    /\ pc = "x_failed"
    /\ df = Rename(file, column_mapping)
    /\ DOMAIN column_mapping # {}
    /\ result.payload = <<Nothing, Nothing, Nothing, Nothing>>


----------------------------------------------------------------------------
(* Claims about the schemas as written in the source (SpecSchema) *)

\* the header of the one-column table the matching was applied to
OnlyHeader == file.names[1]

\* C17 (as stated): a table whose only header is a canonical name of the
\* schema is mapped to that very name at the default threshold, by
\* find_best_match, by map_columns and by standardize_columns.
C17_CanonicalHeadersFixed ==
    /\ (pc = "found" /\ OnlyHeader \in CanonicalNames)
           => match.match = OnlyHeader
    /\ (pc = "map_columns_returned" /\ NCols(file) = 1 /\ OnlyHeader \in CanonicalNames)
           => /\ OnlyHeader \in DOMAIN column_mapping
              /\ column_mapping[OnlyHeader] = OnlyHeader
    /\ (pc = "mapped" /\ OnlyHeader \in Range(STANDARD_PARAMS))
           => df.names = file.names

\* the entries of standard_columns that carry pattern p
EntriesWith(p) ==
    {e \in 1..Len(standard_columns) : p \in Range(standard_columns[e].patterns)}

\* C18 (as stated): map_columns at threshold 70 on the headers "Vds Max (V)",
\* "rds_on", "vendor" leaves none unmapped and maps them to the
\* drain-source-voltage entry, the on-resistance entry and the manufacturer
\* entry; the synonym "vendor" is registered under the manufacturer entry of
\* the schema the program has built.
C18_ScenarioMapped ==
    /\ \E e \in EntriesWith("vendor") : standard_columns[e].name = "Manufacturer_real"
    /\ (pc = "map_columns_returned" /\ file.names = ScenarioHeaders)
           => /\ unmapped_columns = <<>>
              /\ DOMAIN column_mapping = Range(ScenarioHeaders)
              /\ column_mapping["Vds Max (V)"] = "VDS [max] (V)"
              /\ column_mapping["rds_on"] = "RDSon [max] @ VGS = 10 V (mOhm)"
              /\ column_mapping["vendor"] = "Manufacturer_real"


----------------------------------------------------------------------------
(* Unmapped columns (SpecCalls) and empty headers (SpecMatch) *)

\* column k of the input has been left unmapped by map_columns
Unmapped(k) ==
    /\ file.names[k] \in Range(unmapped_columns)
    /\ file.names[k] \notin DOMAIN column_mapping

\* no entry of STANDARD_PARAMS reaches the threshold for column k of the input
Unmatched(k) ==
    \A e \in 1..Len(STANDARD_PARAMS) : ExtractOneScore(file.names[k], e) < StdThreshold

\* column k of table t is column k of the input: same header, same cells
SameColumn(t, k) == t.names[k] = file.names[k] /\ t.cols[k] = file.cols[k]

\* C19: a column whose best score is below the threshold is listed in
\* unmapped_columns and is in no key of column_mapping; after the renaming
\* step (df.rename of process_excel_file, and of standardize_columns) it
\* stands at its position with its header text and its cells, in the renamed
\* table and in the table written.
C19_UnmappedPassThrough ==
    /\ pc \in {"map_columns_returned", "x_mapped", "x_renamed"} =>
           \A k \in 1..NCols(file) :
               MaxScoreFound(file.names[k], threshold) < threshold => Unmapped(k)
    /\ pc = "x_renamed" =>
           /\ NCols(df) = NCols(file)
           /\ df.index = file.index
           /\ \A k \in 1..NCols(file) : Unmapped(k) => SameColumn(df, k)
    /\ (pc = "x_done" /\ out # <<>>) =>
           /\ NCols(out[Len(out)]) = NCols(file)
           /\ \A k \in 1..NCols(file) : Unmapped(k) => SameColumn(out[Len(out)], k)
    /\ pc = "mapped" =>
           /\ NCols(df) = NCols(file)
           /\ \A k \in 1..NCols(file) : Unmatched(k) => SameColumn(df, k)

\* C19 witness: of a two-column file read by process_excel_file the first
\* column was left unmapped and the second was renamed
C19_Witness ==
    /\ pc = "x_renamed"
    /\ NCols(file) = 2
    /\ NRows(file) = 2
    /\ Unmapped(1)
    /\ file.names[2] \in DOMAIN column_mapping
    /\ df.names = <<file.names[1], column_mapping[file.names[2]]>>
    /\ df.names[2] # file.names[2]

\* headers that are empty after cleaning: NaN, the empty text, blanks, a
\* label token alone or with its separator
EmptyHeaders == {NaNHeader, "", "   ", "column", "Field:", " COL -  "}

\* C20: for a header that is empty after cleaning, find_best_match returns
\* (None, 0) at every threshold, threshold 0 included, whatever the scores of
\* the comparisons would be.
C20_EmptyHeaderUnmapped ==
    pc = "found" =>
        /\ file.names[1] \in EmptyHeaders => clean_column_name(file.names[1]) = <<>>
        /\ clean_column_name(file.names[1]) = <<>> => match = [match |-> None, score |-> 0]

\* C20 witness: find_best_match has returned (None, 0) for " COL -  " at
\* threshold 0 although a comparison of that header would score above 0
C20_Witness ==
    /\ pc = "found"
    /\ file.names[1] = " COL -  "
    /\ threshold = 0
    /\ \E t \in RatioTargets : Ratio(file.names[1], t) > 0
    /\ match = [match |-> None, score |-> 0]


----------------------------------------------------------------------------
(* SpecMain: main of src/standerlized2.py in command-line mode: the         *)
(* threshold is int(sys.argv[3]) and is handed to process_excel_file.       *)

\* values of int(sys.argv[3]): below the range, inside it, above it
ArgThresholds == {-5, 70, 150}

\* main (lines 1101-1119): argv read, mapper built, process_excel_file called
\* with an output file
InitMain ==
    /\ pc = "x_start"
    /\ LoadedFrom(MapHeaders, CellVals, DlgCols, DlgRows, DlgCells)
    /\ IsDistinct(file.names)
    /\ df = [index |-> <<>>, names |-> <<>>, cols |-> <<>>]
    /\ threshold \in ArgThresholds
    /\ \E rt \in [Range(file.names) -> [DrawnRatioTargets -> MapScores]] :
          fz = [h \in Range(file.names) |->
                   [ratio   |-> WithZeros(rt[h], RatioTargets),
                    partial |-> [y \in PartialTargets |-> 0]]]
    /\ mfr = ""
    /\ add_manufacturer = FALSE
    /\ wratio = <<>>
    /\ out = <<>>
    /\ result = NoResult
    /\ match = [match |-> None, score |-> 0]
    /\ column_mapping = <<>>
    /\ unmapped_columns = <<>>
    /\ mapping_scores = <<>>
    /\ final_mapping = <<>>
    /\ BatchIdle
    /\ ExtIdle

SpecMain == InitMain /\ [][NextMap]_vars

\* C21 (as stated): with a threshold outside 0..100 the run is rejected
\* before any column is scored or any file written: map_columns is not
\* reached, no mapping or report is produced, nothing is written and the
\* call does not end in success.
C21_OutOfRangeThresholdRejected ==
    threshold \notin 0..100 =>
        /\ pc \notin {"x_mapped", "x_renamed"}
        /\ column_mapping = <<>> /\ unmapped_columns = <<>>
        /\ out = <<>>
        /\ ~result.ok


----------------------------------------------------------------------------
(* SpecStandardize: standardize_columns(df, mapping_dict) of                *)
(* src/standerlized.py called with a schema of the caller's choice.         *)

\* the schemas handed over: none of the entries, or the entries of
\* STANDARD_PARAMS
GivenSchemas == {<<>>, STANDARD_PARAMS}

InitStandardize ==
    /\ pc = "call_standardize"
    /\ LoadedFrom(RawHeaders, CellVals, DlgCols, DlgRows, DlgCells)
    /\ df = file
    /\ mapping_arg \in GivenSchemas
    /\ \E w \in [RawHeaders -> [DrawnEntries -> StdScores]] : wratio = WithZeroEntries(w)
    /\ mfr = ""
    /\ add_manufacturer = FALSE
    /\ out = <<>>
    /\ result = NoResult
    /\ MapperIdle
    /\ BatchIdle
    /\ gui = GuiIdle
    /\ scr = <<>>
    /\ threads = <<>>
    /\ cmb = CmbIdle

\* standardize_columns(df, mapping_dict) (lines 373-386): the loops run, the
\* renamed table is returned
StandardizeGiven ==
    /\ pc = "call_standardize"
    /\ df' = standardize_columns(df, mapping_arg, StdThreshold)
    /\ pc' = "standardized"
    /\ UNCHANGED <<file, mfr, add_manufacturer, wratio, out, result, mapVars, batchVars, extVars>>

NextStandardize == StandardizeGiven

SpecStandardize == InitStandardize /\ [][NextStandardize]_vars

\* C22 (as stated): a schema with zero entries is rejected before mapping:
\* standardize_columns never returns a table for an empty mapping_dict.
C22_EmptySchemaRejected ==
    mapping_arg = <<>> => pc # "standardized"


----------------------------------------------------------------------------
(* Tie-break and the partial-score rule of find_best_match (SpecMatch) *)

\* the entries whose best eligible score for header h is the maximum found
MaxEntries(h, thr) ==
    {e \in 1..Len(standard_columns) :
        MaxOf(EntryScores(h, e, thr)) = MaxScoreFound(h, thr)}

\* C23: when find_best_match returns a name, it is the name of the first
\* entry, in the order of the schema, that reaches the maximum score found;
\* an entry that only equals the maximum of the entries before it is not
\* returned.
C23_FirstOfTiedEntriesWins ==
    (pc = "found" /\ match.match # None) =>
        /\ match.score = MaxScoreFound(file.names[1], threshold)
        /\ EntryOf(match.match) \in MaxEntries(file.names[1], threshold)
        /\ \A e \in MaxEntries(file.names[1], threshold) : EntryOf(match.match) <= e

\* C23 witness: two entries reach the same maximum score, which is at least
\* the threshold, and the first of them has been returned
C23_Witness ==
    /\ pc = "found"
    /\ Cardinality(MaxEntries(file.names[1], threshold)) >= 2
    /\ MaxScoreFound(file.names[1], threshold) >= threshold
    /\ threshold > 0
    /\ match.match = standard_columns[1].name

\* the scores of header h for entry e when a partial ratio counts only if it
\* is strictly greater than thr + 10
StrictEntryScores(h, e, thr) ==
    {Ratio(h, LowerText(standard_columns[e].name))}
    \cup {Ratio(h, LowerText(p)) : p \in Range(standard_columns[e].patterns)}
    \cup {PartialRatio(h, LowerText(p)) :
             p \in {q \in Range(standard_columns[e].patterns) :
                       PartialRatio(h, LowerText(q)) > thr + 10}}

\* C24 (as stated): a partial score becomes the best score only if it is
\* strictly greater than threshold + 10: the score returned for a header that
\* is not empty after cleaning is the maximum of the whole-string scores and
\* of the partial scores above threshold + 10, and a header is mapped only if
\* that maximum reaches the threshold.
C24_PartialAboveThresholdPlusTen ==
    (pc = "found" /\ clean_column_name(file.names[1]) # <<>>) =>
        LET best == MaxOf(UNION {StrictEntryScores(file.names[1], e, threshold) :
                                    e \in 1..Len(standard_columns)})
        IN /\ match.score = best
           /\ match.match # None => best >= threshold


----------------------------------------------------------------------------
(* Regrouping the fold of a duplicate group (SpecMerge) *)

\* the results of merging the series of ss, in their order, under every
\* grouping of adjacent series: merge(A, merge(B, C)), merge(merge(A, B), C), ...
RECURSIVE Groupings(_)
Groupings(ss) ==
    IF Len(ss) = 1 THEN {ss[1]}
    ELSE UNION {{MergeStep(a, b) : a \in Groupings(SubSeq(ss, 1, k)),
                                   b \in Groupings(SubSeq(ss, k + 1, Len(ss)))} :
                   k \in 1..(Len(ss) - 1)}

\* the member columns of the group named c, in table order
GroupSeries(t, c) ==
    LET ix == SameNameCols(t.names, c) IN [n \in 1..Len(ix) |-> Iloc(t, ix[n])]

\* no two non-null members of the group differ in row r
Agreeing(t, c, r) == Cardinality(Range(NonNull(GroupRow(t, c, r)))) <= 1

\* C25: for a group of three or more same-named columns, every grouping of
\* the merges of adjacent members has nulls in the rows where the left fold
\* of combine_duplicate_columns has them, and the value of the left fold in
\* every row where no two non-null members differ.
C25_FoldGroupingIrrelevant ==
    pc = "combined" =>
        \A c \in Range(file.names) :
            Cardinality(Positions(file, c)) >= 3 =>
                \A g \in Groupings(GroupSeries(file, c)) :
                    \A r \in 1..NRows(file) :
                        LET merged == df.cols[FirstPos(df, c)][r]
                        IN /\ (g[r] = NULL) <=> (merged = NULL)
                           /\ Agreeing(file, c, r) => g[r] = merged

\* C25 witness: a group of three has been merged whose first row is filled
\* by its last member only and whose second row holds two different values,
\* so that the groupings give different texts there
C25_Witness ==
    /\ pc = "combined"
    /\ \E c \in Range(file.names) :
          /\ Cardinality(Positions(file, c)) = 3
          /\ NRows(file) = 2
          /\ GroupRow(file, c, 1) = <<NULL, NULL, "5">>
          /\ GroupRow(file, c, 2) = <<"5", "5", "10">>
          /\ df.cols[FirstPos(df, c)] = <<"5", "5 | 10">>
          /\ Cardinality({g[2] : g \in Groupings(GroupSeries(file, c))}) = 2


----------------------------------------------------------------------------
(* SpecScraper: src/GUIscrapper.py.  The GUI thread runs the handlers of    *)
(* TableScraperGUI (start_scraping, stop_scraping, the callback queued by   *)
(* scraping_finished, on_closing); every start creates an                   *)
(* EnhancedTableScraper and a thread that executes run_scraper.  A thread   *)
(* step is one statement group between two points where the other thread   *)
(* may run.  What the browser and the site answer is chosen freely.         *)

MaxRuns      == 1     \* scrapes started from one window
MaxSitePages == 2     \* pages the site offers (has_next_page is false on the last)
MaxTables    == 1     \* tables found on one page
MaxRetries   == 4     \* config.max_retries of a scraper used without the GUI

\* config.max_pages as the GUI sets it: None (0 here), or the spinbox value
MaxPagesVals == {0, 1, 2}

\* TableScraperConfig.max_retries (line 41); the GUI never changes it
DefaultRetries == 3

\* EnhancedTableScraper.__init__ (lines 74-82) with its config
NewScraper(max_pages, max_retries) ==
    [max_pages |-> max_pages, max_retries |-> max_retries, driver |-> "none",
     is_running |-> FALSE, should_stop |-> FALSE, all_data |-> 0,
     stop_requested |-> FALSE]

\* a thread about to execute the function named entry on scraper self
NewThread(entry, start_pc, self) ==
    [entry |-> entry, pc |-> start_pc, self |-> self, attempt |-> 0, page_num |-> 0,
     pages |-> <<>>, clicks |-> <<>>, loads |-> <<>>, saw_stop |-> FALSE,
     returned |-> Nothing, finished |-> <<>>, cleaned |-> <<>>]

\* the positions of a thread inside load_page_with_retry / scrape_all_pages
LoadPcs   == {"load_top", "load_get", "load_sleep"}
ScrapePcs == LoadPcs \cup {"loop_top", "page", "has_next", "click", "loop_exit"}

\* the process is alive: root.destroy() ends mainloop and with it the
\* daemon threads
Alive == gui.window # "destroyed"

\* thread record th when load_page_with_retry has returned v to its caller:
\* scrape_all_pages goes on at line 265 (False: return False; True:
\* page_num = 1, line 269)
LoadReturned(th, v) ==
    IF th.entry = "load_page_with_retry"
    THEN [th EXCEPT !.pc = "returned", !.returned = Some(v)]
    ELSE IF v THEN [th EXCEPT !.pc = "loop_top", !.page_num = 1]
         ELSE [th EXCEPT !.pc = IF th.entry = "run_scraper" THEN "scraped" ELSE "returned",
                         !.returned = Some(FALSE)]

\* the scraper objects then: self.is_running = False before return False
\* (line 266)
AfterLoad(th, v) ==
    IF th.entry # "load_page_with_retry" /\ ~v
    THEN [scr EXCEPT ![th.self].is_running = FALSE] ELSE scr

\* start_scraping (lines 671-699), inputs valid
StartScraping ==
    /\ Alive
    /\ gui.start_button = "normal"
    /\ Len(scr) < MaxRuns
    /\ \E mp \in MaxPagesVals :
          scr' = Append(scr, NewScraper(mp, DefaultRetries))
    /\ threads' = Append(threads, NewThread("run_scraper", "start", 0))
    /\ gui' = [gui EXCEPT !.start_button = "disabled", !.stop_button = "normal",
                          !.scraper = Len(scr) + 1]
    /\ UNCHANGED <<stdVars, mapVars, batchVars, mapping_arg, cmb>>

\* TableScraperGUI.stop_scraping (lines 744-748) from the Stop button, which
\* calls EnhancedTableScraper.stop_scraping (lines 364-367)
StopScraping ==
    /\ Alive
    /\ gui.stop_button = "normal"
    /\ gui.scraper # 0
    /\ scr' = [scr EXCEPT ![gui.scraper].should_stop = TRUE,
                          ![gui.scraper].stop_requested = TRUE]
    /\ UNCHANGED <<stdVars, mapVars, batchVars, mapping_arg, gui, threads, cmb>>

\* _update_ui_after_scraping (lines 727-742), queued by root.after(0, ...)
UpdateUiAfterScraping ==
    /\ Alive
    /\ gui.after # <<>>
    /\ gui' = [gui EXCEPT !.start_button = "normal", !.stop_button = "disabled",
                          !.after = Tail(@), !.handled = @ \cup {Head(gui.after).thread}]
    /\ UNCHANGED <<stdVars, mapVars, batchVars, mapping_arg, scr, threads, cmb>>

\* on_closing (lines 805-811): with a scraper that says it is running the
\* user is asked; OK stops the scraper and destroys the window a second
\* later, Cancel changes nothing; otherwise the window is destroyed
OnClosing ==
    /\ gui.window = "open"
    /\ IF gui.scraper # 0 /\ scr[gui.scraper].is_running
       THEN \/ /\ gui' = [gui EXCEPT !.window = "closing"]
               /\ scr' = [scr EXCEPT ![gui.scraper].should_stop = TRUE,
                                     ![gui.scraper].stop_requested = TRUE]
            \/ UNCHANGED <<gui, scr>>
       ELSE /\ gui' = [gui EXCEPT !.window = "destroyed"]
            /\ UNCHANGED scr
    /\ UNCHANGED <<stdVars, mapVars, batchVars, mapping_arg, threads, cmb>>

\* root.after(1000, root.destroy) fires (line 809)
DestroyWindow ==
    /\ gui.window = "closing"
    /\ gui' = [gui EXCEPT !.window = "destroyed"]
    /\ UNCHANGED <<stdVars, mapVars, batchVars, mapping_arg, scr, threads, cmb>>

\* setup_driver with a failure that returns without scraping_finished
SetupDriverSilentFailure ==
    \E t \in DOMAIN threads :
        /\ Alive
        /\ threads[t].pc = "start"
        /\ \/ /\ scr' = [scr EXCEPT ![gui.scraper].driver = "open"]
              /\ threads' = [threads EXCEPT ![t].pc = "setup_ok"]
           \/ /\ threads' = [threads EXCEPT ![t].pc = "finally", ![t].returned = Some(FALSE)]
              /\ UNCHANGED scr
        /\ UNCHANGED <<stdVars, mapVars, batchVars, mapping_arg, gui, cmb>>

\* run_scraper: self.scraper.setup_driver() (lines 704-706, 119-147)
SetupDriver ==
    \E t \in DOMAIN threads :
        /\ Alive
        /\ threads[t].pc = "start"
        /\ \/ /\ scr' = [scr EXCEPT ![gui.scraper].driver = "open"]
              /\ threads' = [threads EXCEPT ![t].pc = "setup_ok"]
           \/ /\ threads' = [threads EXCEPT ![t].pc = "finish", ![t].returned = Some(FALSE)]
              /\ UNCHANGED scr
        /\ UNCHANGED <<stdVars, mapVars, batchVars, mapping_arg, gui, cmb>>

\* scrape_all_pages is entered (lines 262-265): is_running = True,
\* should_stop = False, load_page_with_retry is called
EnterScrape ==
    \E t \in DOMAIN threads :
        /\ Alive
        /\ threads[t].pc \in {"setup_ok", "call_scrape"}
        /\ LET self == IF threads[t].entry = "run_scraper" THEN gui.scraper ELSE threads[t].self
           IN /\ scr' = [scr EXCEPT ![self].is_running = TRUE, ![self].should_stop = FALSE]
              /\ threads' = [threads EXCEPT ![t].pc = "load_top", ![t].self = self,
                                            ![t].attempt = 0]
        /\ UNCHANGED <<stdVars, mapVars, batchVars, mapping_arg, gui, cmb>>

\* the head of the for loop and the test of should_stop (lines 151-153, 175-176)
LoadTop ==
    \E t \in DOMAIN threads :
        /\ Alive
        /\ threads[t].pc = "load_top"
        /\ LET th == threads[t]
           IN IF th.attempt >= scr[th.self].max_retries
              THEN /\ threads' = [threads EXCEPT ![t] = LoadReturned(th, FALSE)]
                   /\ scr' = AfterLoad(th, FALSE)
              ELSE IF scr[th.self].should_stop
                   THEN /\ threads' = [threads EXCEPT
                                          ![t] = LoadReturned([th EXCEPT !.saw_stop = TRUE], FALSE)]
                        /\ scr' = AfterLoad(th, FALSE)
                   ELSE /\ threads' = [threads EXCEPT ![t].pc = "load_get"]
                        /\ UNCHANGED scr
        /\ UNCHANGED <<stdVars, mapVars, batchVars, mapping_arg, gui, cmb>>

\* an attempt that waits retry_delay after every failure, the last included
LoadAttemptAlwaysSleeps ==
    \E t \in DOMAIN threads :
        /\ Alive
        /\ threads[t].pc = "load_get"
        /\ LET th == threads[t]
           IN \/ /\ threads' = [threads EXCEPT
                                    ![t] = LoadReturned([th EXCEPT !.loads = Append(@, "loaded")], TRUE)]
                 /\ UNCHANGED scr
              \/ /\ threads' = [threads EXCEPT ![t].loads = Append(@, "failed"),
                                                ![t].pc = "load_sleep"]
                 /\ UNCHANGED scr
              \/ /\ threads' = [threads EXCEPT
                                    ![t].loads = Append(@, "raised"),
                                    ![t].pc = IF th.entry = "run_scraper" THEN "except" ELSE "raised"]
                 /\ UNCHANGED scr
        /\ UNCHANGED <<stdVars, mapVars, batchVars, mapping_arg, gui, cmb>>

\* one attempt (lines 155-173): driver.get and the two waits succeed, or end
\* in TimeoutException / WebDriverException, or raise something else
LoadAttempt ==
    \E t \in DOMAIN threads :
        /\ Alive
        /\ threads[t].pc = "load_get"
        /\ LET th == threads[t]
           IN \/ /\ threads' = [threads EXCEPT
                                    ![t] = LoadReturned([th EXCEPT !.loads = Append(@, "loaded")], TRUE)]
                 /\ UNCHANGED scr
              \/ /\ threads' = [threads EXCEPT
                                    ![t].loads = Append(@, "failed"),
                                    ![t].pc = IF th.attempt < scr[th.self].max_retries - 1
                                              THEN "load_sleep" ELSE "load_top",
                                    ![t].attempt = IF th.attempt < scr[th.self].max_retries - 1
                                                   THEN @ ELSE @ + 1]
                 /\ UNCHANGED scr
              \/ /\ threads' = [threads EXCEPT
                                    ![t].loads = Append(@, "raised"),
                                    ![t].pc = IF th.entry = "run_scraper" THEN "except" ELSE "raised"]
                 /\ UNCHANGED scr
        /\ UNCHANGED <<stdVars, mapVars, batchVars, mapping_arg, gui, cmb>>

\* time.sleep(self.config.retry_delay) (lines 168, 173)
LoadSleep ==
    \E t \in DOMAIN threads :
        /\ Alive
        /\ threads[t].pc = "load_sleep"
        /\ threads' = [threads EXCEPT ![t].loads = Append(@, "sleep"),
                                      ![t].attempt = @ + 1, ![t].pc = "load_top"]
        /\ UNCHANGED <<stdVars, mapVars, batchVars, mapping_arg, gui, scr, cmb>>

\* the test of the while loop (line 270) and the start of a page
\* (lines 271-272)
LoopTop ==
    \E t \in DOMAIN threads :
        /\ Alive
        /\ threads[t].pc = "loop_top"
        /\ IF scr[threads[t].self].should_stop
           THEN threads' = [threads EXCEPT ![t].pc = "loop_exit"]
           ELSE threads' = [threads EXCEPT ![t].pc = "page", ![t].pages = Append(@, threads[t].page_num)]
        /\ UNCHANGED <<stdVars, mapVars, batchVars, mapping_arg, gui, scr, cmb>>

\* the page is processed (lines 274-282): screenshot, tables extracted and
\* added to all_data, then the max_pages test
ProcessPage ==
    \E t \in DOMAIN threads :
        /\ Alive
        /\ threads[t].pc = "page"
        /\ LET th == threads[t]
               mp == scr[th.self].max_pages
           IN /\ \E n \in 0..MaxTables : scr' = [scr EXCEPT ![th.self].all_data = @ + n]
              /\ threads' = [threads EXCEPT ![t].pc = IF mp # 0 /\ th.page_num >= mp
                                                      THEN "loop_exit" ELSE "has_next"]
        /\ UNCHANGED <<stdVars, mapVars, batchVars, mapping_arg, gui, cmb>>

\* has_next_page (lines 223-258, 284-287): no next page, a next button, or
\* an exception of find_next_button, which catches NoSuchElementException
\* only (e.g. get_attribute("class") is None for a link without class)
HasNextPage ==
    \E t \in DOMAIN threads :
        /\ Alive
        /\ threads[t].pc = "has_next"
        /\ \/ threads' = [threads EXCEPT ![t].pc = "loop_exit"]
           \/ /\ threads[t].page_num < MaxSitePages
              /\ threads' = [threads EXCEPT ![t].pc = "click"]
           \/ threads' = [threads EXCEPT ![t].pc = IF threads[t].entry = "run_scraper"
                                                   THEN "except" ELSE "raised"]
        /\ UNCHANGED <<stdVars, mapVars, batchVars, mapping_arg, gui, scr, cmb>>

\* next_button.click(), the wait, page_num += 1, time.sleep(1); on an
\* exception the loop is left (lines 289-301)
Navigate ==
    \E t \in DOMAIN threads :
        /\ Alive
        /\ threads[t].pc = "click"
        /\ \/ threads' = [threads EXCEPT ![t].clicks = Append(@, threads[t].page_num),
                                          ![t].page_num = @ + 1, ![t].pc = "loop_top"]
           \/ threads' = [threads EXCEPT ![t].clicks = Append(@, threads[t].page_num),
                                          ![t].pc = "loop_exit"]
        /\ UNCHANGED <<stdVars, mapVars, batchVars, mapping_arg, gui, scr, cmb>>

\* the end of scrape_all_pages (lines 302-304): is_running = False, return True
ExitScrape ==
    \E t \in DOMAIN threads :
        /\ Alive
        /\ threads[t].pc = "loop_exit"
        /\ scr' = [scr EXCEPT ![threads[t].self].is_running = FALSE]
        /\ threads' = [threads EXCEPT ![t].pc = IF threads[t].entry = "run_scraper"
                                                THEN "scraped" ELSE "returned",
                                      ![t].returned = Some(TRUE)]
        /\ UNCHANGED <<stdVars, mapVars, batchVars, mapping_arg, gui, cmb>>

\* run_scraper after scrape_all_pages (lines 710-714): save_data is called
\* when success and all_data; it returns True, returns False or raises
\* (pd.concat and mkdir stand outside its try)
SaveData ==
    \E t \in DOMAIN threads :
        /\ Alive
        /\ threads[t].pc = "scraped"
        /\ IF threads[t].returned = Some(TRUE) /\ scr[gui.scraper].all_data > 0
           THEN \/ \E ok \in BOOLEAN :
                      threads' = [threads EXCEPT ![t].pc = "finish", ![t].returned = Some(ok)]
                \/ threads' = [threads EXCEPT ![t].pc = "except"]
           ELSE threads' = [threads EXCEPT ![t].pc = "finish", ![t].returned = Some(FALSE)]
        /\ UNCHANGED <<stdVars, mapVars, batchVars, mapping_arg, gui, scr, cmb>>

\* scraping_finished(success) (lines 706, 712, 714, 722-725): the UI update
\* is queued with root.after; from the except branch after update_status
\* (lines 716-718)
ScrapingFinished ==
    \E t \in DOMAIN threads :
        /\ Alive
        /\ threads[t].pc \in {"finish", "except"}
        /\ LET success == IF threads[t].pc = "except" THEN FALSE ELSE threads[t].returned[1]
           IN /\ gui' = [gui EXCEPT !.after = Append(@, [thread |-> t, success |-> success])]
              /\ threads' = [threads EXCEPT ![t].pc = "finally",
                                            ![t].finished = Append(@, success)]
        /\ UNCHANGED <<stdVars, mapVars, batchVars, mapping_arg, scr, cmb>>

\* finally: self.scraper.cleanup() (lines 719-720, 369-373), on the scraper
\* the GUI holds at that moment
Cleanup ==
    \E t \in DOMAIN threads :
        /\ Alive
        /\ threads[t].pc = "finally"
        /\ scr' = [scr EXCEPT ![gui.scraper].driver = IF @ = "open" THEN "quit" ELSE @]
        /\ threads' = [threads EXCEPT ![t].pc = "done", ![t].cleaned = Append(@, gui.scraper)]
        /\ UNCHANGED <<stdVars, mapVars, batchVars, mapping_arg, gui, cmb>>

\* one step of a scraper thread
ThreadStep ==
    \/ SetupDriver
    \/ EnterScrape
    \/ LoadTop
    \/ LoadAttempt
    \/ LoadSleep
    \/ LoopTop
    \/ ProcessPage
    \/ HasNextPage
    \/ Navigate
    \/ ExitScrape
    \/ SaveData
    \/ ScrapingFinished
    \/ Cleanup

\* the window has been opened (TableScraperGUI.__init__, main)
InitScraper ==
    /\ pc = "scraper"
    /\ file = NoTable
    /\ df = NoTable
    /\ mfr = ""
    /\ add_manufacturer = FALSE
    /\ wratio = <<>>
    /\ out = <<>>
    /\ result = NoResult
    /\ MapperIdle
    /\ BatchIdle
    /\ ExtIdle

NextScraper ==
    \/ StartScraping
    \/ StopScraping
    \/ UpdateUiAfterScraping
    \/ OnClosing
    \/ DestroyWindow
    \/ SetupDriver
    \/ EnterScrape
    \/ LoadTop
    \/ LoadAttempt
    \/ LoadSleep
    \/ LoopTop
    \/ ProcessPage
    \/ HasNextPage
    \/ Navigate
    \/ ExitScrape
    \/ SaveData
    \/ ScrapingFinished
    \/ Cleanup

SpecScraper == InitScraper /\ [][NextScraper]_vars


\* the scheduler runs every thread that can take a step, and mainloop runs
\* the callbacks queued with root.after
SpecScraperLive ==
    /\ InitScraper
    /\ [][NextScraper]_vars
    /\ WF_vars(ThreadStep)
    /\ WF_vars(UpdateUiAfterScraping)

----------------------------------------------------------------------------
(* Claims about the scraper (SpecScraper, SpecScraperLive) *)

\* C26 (as stated): once stop_scraping has been called on a scraper, at any
\* moment after start_scraping created it, its thread begins no further page.
C26_StopNeverLost ==
    [][\A t \in DOMAIN threads :
          scr[t].stop_requested => threads'[t].pages = threads[t].pages]_vars

\* the calls of scraping_finished and cleanup made by thread t are in order:
\* at most one of each, cleanup only after scraping_finished, both made when
\* run_scraper has ended
FinishedThenCleanup(t) ==
    /\ Len(threads[t].finished) <= 1
    /\ Len(threads[t].cleaned) <= Len(threads[t].finished)
    /\ threads[t].pc = "done" => Len(threads[t].finished) = 1 /\ Len(threads[t].cleaned) = 1

\* the callback of thread t has run and has left Start enabled, Stop disabled
ButtonsReset(t) ==
    /\ t \in gui.handled
    /\ gui.start_button = "normal"
    /\ gui.stop_button = "disabled"

\* C27: on every path of run_scraper scraping_finished is called exactly
\* once and cleanup exactly once after it, and every started scrape leads to
\* the Start button enabled and the Stop button disabled (as long as the
\* window is not destroyed).
C27_FinishedOnceAndButtonsReset ==
    /\ [](\A t \in DOMAIN threads : FinishedThenCleanup(t))
    /\ \A t \in 1..MaxRuns : (t \in DOMAIN threads) ~> (ButtonsReset(t) \/ ~Alive)

\* C27 witness: a run that left scrape_all_pages by an exception has called
\* scraping_finished(False) once, then cleanup once, and the buttons are reset
C27_Witness ==
    \E t \in DOMAIN threads :
        /\ threads[t].pc = "done"
        /\ threads[t].pages = <<1>>
        /\ threads[t].returned = Nothing
        /\ threads[t].finished = <<FALSE>>
        /\ threads[t].cleaned = <<t>>
        /\ scr[t].driver = "quit"
        /\ ButtonsReset(t)

\* C29 (as stated): the pages processed are 1, 2, ..., k, each once; with
\* max_pages set, k <= max_pages and no click on the next button follows the
\* extraction of page max_pages; is_running is False whenever the thread is
\* not inside scrape_all_pages.
C29_PagesInOrderAndRunningFlag ==
    \A t \in DOMAIN threads :
        /\ \A i \in DOMAIN threads[t].pages : threads[t].pages[i] = i
        /\ scr[t].max_pages # 0 =>
              /\ Len(threads[t].pages) <= scr[t].max_pages
              /\ \A i \in DOMAIN threads[t].clicks : threads[t].clicks[i] < scr[t].max_pages
        /\ threads[t].pc \notin ScrapePcs => ~scr[t].is_running


----------------------------------------------------------------------------
(* SpecRetry: load_page_with_retry called on a scraper used without the     *)
(* GUI, with any max_retries; another thread may call stop_scraping.        *)

InitRetry ==
    /\ pc = "scraper"
    /\ file = NoTable
    /\ df = NoTable
    /\ mfr = ""
    /\ add_manufacturer = FALSE
    /\ wratio = <<>>
    /\ out = <<>>
    /\ result = NoResult
    /\ MapperIdle
    /\ BatchIdle
    /\ mapping_arg = STANDARD_PARAMS
    /\ gui = GuiIdle
    /\ cmb = CmbIdle
    /\ \E mr \in 0..MaxRetries, stop \in BOOLEAN :
          scr = << [NewScraper(0, mr) EXCEPT !.driver = "open", !.should_stop = stop,
                                             !.stop_requested = stop] >>
    /\ threads = << NewThread("load_page_with_retry", "load_top", 1) >>

\* EnhancedTableScraper.stop_scraping (lines 364-367) called by another thread
StopRequest ==
    \E s \in DOMAIN scr :
        /\ gui.scraper = 0
        /\ ~scr[s].should_stop
        /\ scr' = [scr EXCEPT ![s].should_stop = TRUE, ![s].stop_requested = TRUE]
        /\ UNCHANGED <<stdVars, mapVars, batchVars, mapping_arg, gui, threads, cmb>>

NextRetry == LoadTop \/ LoadAttempt \/ LoadSleep \/ StopRequest

SpecRetry == InitRetry /\ [][NextRetry]_vars

\* the load attempts among the first n events of a call
Attempts(loads, n) == Cardinality({i \in 1..n : loads[i] # "sleep"})

\* C28: load_page_with_retry makes at most max_retries attempts; a successful
\* attempt is the last event and the call returns True at once; it returns
\* False only after max_retries failed attempts or after seeing should_stop;
\* every wait follows a failed attempt that is not the max_retries-th, and a
\* further event after a failed attempt is that wait; nothing is attempted
\* once should_stop has been seen.
C28_BoundedRetries ==
    \A t \in DOMAIN threads :
        LET th == threads[t]
            L  == th.loads
            mr == scr[th.self].max_retries
        IN th.entry = "load_page_with_retry" =>
            /\ Attempts(L, Len(L)) <= mr
            /\ \A i \in DOMAIN L :
                  /\ L[i] = "loaded" =>
                        i = Len(L) /\ th.pc = "returned" /\ th.returned = Some(TRUE)
                  /\ L[i] = "sleep" =>
                        i > 1 /\ L[i - 1] = "failed" /\ Attempts(L, i) < mr
                  /\ (L[i] = "failed" /\ i < Len(L)) => L[i + 1] = "sleep"
            /\ (th.pc = "returned" /\ th.returned = Some(TRUE)) =>
                  L # <<>> /\ L[Len(L)] = "loaded"
            /\ (th.pc = "returned" /\ th.returned = Some(FALSE)) =>
                  \/ th.saw_stop
                  \/ Attempts(L, Len(L)) = mr /\ \A i \in DOMAIN L : L[i] # "loaded"
            /\ th.saw_stop => th.pc = "returned" /\ th.returned = Some(FALSE)
            /\ (Attempts(L, Len(L)) = mr /\ L # <<>> /\ L[Len(L)] = "failed") =>
                  th.pc \in {"load_top", "returned"}

\* C28 witness: with max_retries = 3 three attempts have failed, with a wait
\* after the first and after the second only, and False has been returned
C28_Witness ==
    \E t \in DOMAIN threads :
        /\ threads[t].entry = "load_page_with_retry"
        /\ scr[threads[t].self].max_retries = 3
        /\ threads[t].loads = <<"failed", "sleep", "failed", "sleep", "failed">>
        /\ threads[t].pc = "returned"
        /\ threads[t].returned = Some(FALSE)
        /\ ~threads[t].saw_stop


----------------------------------------------------------------------------
(* ExcelCombiner.combine_files (src/merge.py, lines 308-369).               *)
(* A frame is [columns, rows]; a row is [cells, origin], where origin names *)
(* the file and the row of that file the row was read from (not a cell: it  *)
(* is kept so that the order of the result can be stated).                  *)

MaxCombineFiles == 2     \* paths handed to combine_files

FileNames == <<"f1.xlsx", "f2.xlsx", "f3.xlsx", "f4.xlsx">>

\* what pd.read_excel gives for a path: an exception, or a table
FileKinds ==
    { [ok |-> FALSE, columns |-> <<>>, rows |-> <<>>],
      [ok |-> TRUE, columns |-> <<"a">>, rows |-> << <<"1">> >>],
      [ok |-> TRUE, columns |-> <<"a">>, rows |-> << <<"1">>, <<"1">> >>],
      [ok |-> TRUE, columns |-> <<"a", "b">>, rows |-> << <<"1", NULL>> >>],
      [ok |-> TRUE, columns |-> <<"b">>, rows |-> <<>>] }

\* the options the dialog returns (lines 218-223)
CombineOptions ==
    [add_source_column : BOOLEAN, source_column_name : {"Source_File"},
     add_custom_columns : BOOLEAN, remove_duplicates : BOOLEAN,
     combine_method : {"append", "inner"}, handle_missing : {"keep", "fill"}]

NoFrame == [columns |-> <<>>, rows |-> <<>>]

ColumnPos(columns, name) == CHOOSE c \in DOMAIN columns : columns[c] = name

\* df[name] = value (lines 322, 326-328): a new last column, or the cells of
\* the column of that name replaced
WithColumn(d, name, value) ==
    IF name \in Range(d.columns)
    THEN [d EXCEPT !.rows = [r \in DOMAIN d.rows |->
                                [d.rows[r] EXCEPT !.cells[ColumnPos(d.columns, name)] = value]]]
    ELSE [columns |-> Append(d.columns, name),
          rows |-> [r \in DOMAIN d.rows |->
                      [d.rows[r] EXCEPT !.cells = Append(@, value)]]]

\* the table read from the j-th path (line 318)
ReadExcel(j, f) ==
    [columns |-> f.columns,
     rows |-> [r \in DOMAIN f.rows |-> [cells |-> f.rows[r], origin |-> <<j, r>>]]]

\* lines 321-328: the source column and the three custom columns
Prepared(j, f, options) ==
    LET d0 == ReadExcel(j, f)
        d1 == IF options.add_source_column
              THEN WithColumn(d0, options.source_column_name, FileNames[j]) ELSE d0
    IN IF options.add_custom_columns
       THEN WithColumn(WithColumn(WithColumn(d1, "BG", ""), "MAG", ""), "Category", "")
       ELSE d1

\* the labels of an outer join: every label, in order of first appearance
RECURSIVE OuterColumns(_)
OuterColumns(frames) ==
    IF frames = <<>> THEN <<>>
    ELSE LET before == OuterColumns(SubSeq(frames, 1, Len(frames) - 1))
             last   == frames[Len(frames)].columns
         IN before \o SelectSeq(last, LAMBDA c : c \notin Range(before))

\* the labels of an inner join: those of the first frame that every frame has
InnerColumns(frames) ==
    SelectSeq(frames[1].columns,
              LAMBDA c : \A k \in DOMAIN frames : c \in Range(frames[k].columns))

\* a row of frame d laid out on the labels of the result
Reindexed(d, row, columns) ==
    [row EXCEPT !.cells = [c \in DOMAIN columns |->
                              IF columns[c] \in Range(d.columns)
                              THEN row.cells[ColumnPos(d.columns, columns[c])]
                              ELSE NULL]]

RECURSIVE ConcatRows(_, _)
ConcatRows(frames, columns) ==
    IF frames = <<>> THEN <<>>
    ELSE LET d == frames[Len(frames)]
         IN ConcatRows(SubSeq(frames, 1, Len(frames) - 1), columns)
              \o [r \in DOMAIN d.rows |-> Reindexed(d, d.rows[r], columns)]

\* pd.concat(combined_data, join=..., ignore_index=True) (lines 345-350)
PdConcat(frames, method) ==
    LET columns == IF method = "inner" THEN InnerColumns(frames) ELSE OuterColumns(frames)
    IN [columns |-> columns, rows |-> ConcatRows(frames, columns)]

\* fillna('') (line 354)
FillEmpty(d) ==
    [d EXCEPT !.rows = [r \in DOMAIN d.rows |->
        [d.rows[r] EXCEPT !.cells = [c \in DOMAIN d.rows[r].cells |->
                                        IF d.rows[r].cells[c] = NULL THEN ""
                                        ELSE d.rows[r].cells[c]]]]]

\* drop_duplicates() (line 359): the first of the rows with equal cells stays
KeptRows(rows) ==
    {r \in DOMAIN rows : \A q \in 1..(r - 1) : rows[q].cells # rows[r].cells}

DropDuplicates(d) ==
    [d EXCEPT !.rows = [k \in 1..Cardinality(KeptRows(d.rows)) |->
                           d.rows[SortedSeq(KeptRows(d.rows))[k]]]]

\* combine_files is entered (lines 308-311)
InitCombine ==
    /\ pc = "combiner"
    /\ file = NoTable
    /\ df = NoTable
    /\ mfr = ""
    /\ add_manufacturer = FALSE
    /\ wratio = <<>>
    /\ out = <<>>
    /\ result = NoResult
    /\ MapperIdle
    /\ BatchIdle
    /\ mapping_arg = STANDARD_PARAMS
    /\ gui = GuiIdle
    /\ scr = <<>>
    /\ threads = <<>>
    /\ \E n \in 0..MaxCombineFiles :
         \E paths \in [1..n -> FileKinds], options \in CombineOptions :
            cmb = [pc |-> "loop", file_paths |-> paths, options |-> options, i |-> 1,
                   combined_data |-> <<>>, processing_log |-> <<>>, handled |-> <<>>,
                   returned_none |-> FALSE, combined_df |-> NoFrame]

LogEntry(kind, path, n) == [kind |-> kind, path |-> path, n |-> n]

\* a loop that ends at the first file that cannot be read
CombineReadStopsAtError ==
    /\ cmb.pc = "loop"
    /\ cmb.i <= Len(cmb.file_paths)
    /\ LET j == cmb.i
           f == cmb.file_paths[j]
           d == Prepared(j, f, cmb.options)
           started == Append(cmb.processing_log, LogEntry("processing", j, 0))
       IN cmb' = IF f.ok
                 THEN [cmb EXCEPT
                         !.combined_data = Append(@, d),
                         !.processing_log =
                             (IF cmb.options.add_custom_columns
                              THEN Append(started, LogEntry("custom", j, 0)) ELSE started)
                               \o << LogEntry("added", j, Len(d.rows)) >>,
                         !.handled = Append(@, j),
                         !.i = j + 1]
                 ELSE [cmb EXCEPT
                         !.processing_log = Append(started, LogEntry("error", j, 0)),
                         !.handled = Append(@, j),
                         !.i = Len(cmb.file_paths) + 1]
    /\ UNCHANGED <<stdVars, mapVars, batchVars, mapping_arg, gui, scr, threads>>

\* one pass of the loop (lines 313-337): the file is read and added, or the
\* exception is logged and the loop goes on
CombineRead ==
    /\ cmb.pc = "loop"
    /\ cmb.i <= Len(cmb.file_paths)
    /\ LET j == cmb.i
           f == cmb.file_paths[j]
           d == Prepared(j, f, cmb.options)
           started == Append(cmb.processing_log, LogEntry("processing", j, 0))
       IN cmb' = IF f.ok
                 THEN [cmb EXCEPT
                         !.combined_data = Append(@, d),
                         !.processing_log =
                             (IF cmb.options.add_custom_columns
                              THEN Append(started, LogEntry("custom", j, 0)) ELSE started)
                               \o << LogEntry("added", j, Len(d.rows)) >>,
                         !.handled = Append(@, j),
                         !.i = j + 1]
                 ELSE [cmb EXCEPT
                         !.processing_log = Append(started, LogEntry("error", j, 0)),
                         !.handled = Append(@, j),
                         !.i = j + 1]
    /\ UNCHANGED <<stdVars, mapVars, batchVars, mapping_arg, gui, scr, threads>>

\* after the loop (lines 339-369): None when nothing was read, otherwise the
\* frames are concatenated, missing values filled and duplicates dropped as
\* the options say
CombineReturn ==
    /\ cmb.pc = "loop"
    /\ cmb.i > Len(cmb.file_paths)
    /\ IF cmb.combined_data = <<>>
       THEN cmb' = [cmb EXCEPT !.pc = "returned", !.returned_none = TRUE]
       ELSE LET o  == cmb.options
                d0 == PdConcat(cmb.combined_data, o.combine_method)
                d1 == IF o.handle_missing = "fill" THEN FillEmpty(d0) ELSE d0
                d2 == IF o.remove_duplicates THEN DropDuplicates(d1) ELSE d1
                l0 == Append(cmb.processing_log, LogEntry("combining", 0, 0))
                l1 == IF o.remove_duplicates
                      THEN Append(l0, LogEntry("removed", 0, Len(d1.rows) - Len(d2.rows)))
                      ELSE l0
                l2 == IF o.add_custom_columns THEN Append(l1, LogEntry("custom", 0, 0)) ELSE l1
            IN cmb' = [cmb EXCEPT !.pc = "returned", !.combined_df = d2,
                                  !.processing_log = Append(l2, LogEntry("final", 0, Len(d2.rows)))]
    /\ UNCHANGED <<stdVars, mapVars, batchVars, mapping_arg, gui, scr, threads>>

NextCombine == CombineRead \/ CombineReturn

SpecCombine == InitCombine /\ [][NextCombine]_vars

\* the rows of the files that could be read, file after file
RECURSIVE ReadOrigins(_, _)
ReadOrigins(paths, n) ==
    IF n = 0 THEN <<>>
    ELSE ReadOrigins(paths, n - 1)
           \o (IF paths[n].ok THEN [r \in DOMAIN paths[n].rows |-> <<n, r>>] ELSE <<>>)

\* C30: combine_files handles the paths once each and in order; every file
\* that cannot be read has its error in the log and the files after it are
\* still handled; (None, log) is returned exactly when no file could be read;
\* with remove_duplicates off the rows of the result are the rows of the
\* files read, file after file (so their number is the sum of the row counts).
C30_EveryFileOnceInOrder ==
    cmb.pc # "idle" =>
        /\ cmb.handled = [k \in 1..(cmb.i - 1) |-> k]
        /\ \A j \in 1..(cmb.i - 1) :
              ~cmb.file_paths[j].ok <=>
                  \E k \in DOMAIN cmb.processing_log :
                      cmb.processing_log[k] = LogEntry("error", j, 0)
        /\ cmb.pc = "returned" =>
              /\ cmb.i = Len(cmb.file_paths) + 1
              /\ cmb.returned_none <=> \A j \in DOMAIN cmb.file_paths : ~cmb.file_paths[j].ok
              /\ (~cmb.returned_none /\ ~cmb.options.remove_duplicates) =>
                    /\ [r \in DOMAIN cmb.combined_df.rows |-> cmb.combined_df.rows[r].origin]
                          = ReadOrigins(cmb.file_paths, Len(cmb.file_paths))
                    /\ Len(cmb.combined_df.rows)
                          = Len(ReadOrigins(cmb.file_paths, Len(cmb.file_paths)))

\* C30 witness: the first of two files could not be read, the second has two
\* rows; duplicates are kept and the result has those two rows
C30_Witness ==
    /\ cmb.pc = "returned"
    /\ Len(cmb.file_paths) = 2
    /\ ~cmb.file_paths[1].ok
    /\ cmb.file_paths[2].ok
    /\ Len(cmb.file_paths[2].rows) = 2
    /\ ~cmb.options.remove_duplicates
    /\ ~cmb.returned_none
    /\ Len(cmb.combined_df.rows) = 2
    /\ cmb.handled = <<1, 2>>

=============================================================================
